---- MODULE Spec2Model ----
(***************************************************************************)
(* Model of the job-application run of stapply-ai/agent:                   *)
(*   server/utils/browser.py  start_agent, start_chrome_with_debug_port,   *)
(*                            _run_agent_background, send_webhook,         *)
(*                            generate_webhook_signature                   *)
(*   server/utils/webhook.py  verify_webhook_signature                     *)
(*   server/utils/resume.py   download_resume, cleanup_resume              *)
(*   server/utils/tools/playwright.py  connect_playwright_to_cdp           *)
(* Spec     : the foreground call and the background task of each run.     *)
(* FairSpec : Spec with the event loop's fairness for the background task. *)
(* ConcSpec : two start_agent calls and their tasks running concurrently.  *)
(* HookSpec : send_webhook and the sign / verify functions on their own.   *)
(***************************************************************************)
EXTENDS Integers, Sequences, FiniteSets, TLC

\* ------------------------------------------------------------------ bounds
NumRuns == 1
MaxLen == 2
MaxTargets == 2
MaxPasses == 2

\* ------------------------------------------------------- program constants
ReadinessAttempts == 20
HmacBlockSize == 64
DefaultTolerance == 300
DiscoveryAttempts == 7

Runs == 1..NumRuns
NoRun == 0

\* ------------------------------------------------------------------ inputs
\* Arguments of start_agent; "" is the empty / missing value of a field.
Requests ==
    [user_id : {"", "u1"},
     url : {"", "https://example.com/apply"},
     profile : {"", "profile"},
     resume_url : {"", "https://files/r.pdf"},
     webhook_url : {"", "https://caller/hook"}]

NoRequest ==
    [user_id |-> "", url |-> "", profile |-> "", resume_url |-> "",
     webhook_url |-> ""]

VARIABLES
    req,                \* arguments each start_agent call was given
    fg,                 \* position of the foreground call start_agent
    fgErr,              \* exception start_agent raised to its caller
    session_id,         \* session id returned to the caller, <<>> before
    live_view_url,      \* live view URL returned to the caller
    portBound,          \* _find_free_port bound a socket for this run
    user_data_dir,      \* temp profile directory: none / exists / removed
    chrome_process,     \* browser process: none / running / terminated / killed
    probes,             \* readiness probes of /json/version made so far
    bg,                 \* position of the task _run_agent_background
    exc,                \* exception in flight inside the background task
    taskEnd,            \* how the background task ended
    file_path,          \* local variable file_path of the background task
    resumeFile,         \* resume file on disk: none / exists / removed
    agentResult,        \* result.is_successful() of agent.run()
    cleanupEntered,     \* number of times the finally block was entered
    cleanupSteps,       \* cleanup steps the finally block executed
    playwright_browser, \* module global of tools/playwright.py (run or NoRun)
    playwright_page,    \* module global of tools/playwright.py (run or NoRun)
    handle,             \* what each run holds: process, directory, file path
    posts,              \* webhook POST requests made so far
    hook,               \* the send_webhook call in progress
    check,              \* last sign / verify / rewrite evaluation
    view                \* the resolve_live_view_url call of a start_agent

runVars ==
    <<req, fg, fgErr, session_id, live_view_url, portBound, user_data_dir,
      chrome_process, probes, bg, exc, taskEnd, file_path, resumeFile,
      agentResult, cleanupEntered, cleanupSteps, playwright_browser,
      playwright_page, handle>>

hookVars == <<posts, hook, check>>

vars == <<runVars, hookVars, view>>


\* ------------------------------------------------------------------- Init
NoHook ==
    [pc |-> "idle", webhook_url |-> "", user_id |-> "", success |-> FALSE,
     secret |-> <<>>, timestamp |-> 0, posted |-> 0, signed |-> FALSE,
     error |-> "none"]

NoCheck == [op |-> "none"]

\* What a function returning Optional[str] returned.
Unavailable == [kind |-> "None", value |-> <<>>]

Available(url) == [kind |-> "str", value |-> url]

NoResponse == [kind |-> "none", targets |-> <<>>]

\* No start_agent call has reached resolve_live_view_url yet.
NoView ==
    [pc |-> "idle", public_host |-> <<>>, attempt |-> 0, endpoint |-> 0,
     queries |-> <<>>, response |-> NoResponse, last_error |-> FALSE,
     picked |-> 0, resolved |-> Unavailable, live_view_url |-> Unavailable,
     scheduled |-> FALSE]

\* A run that holds no process, directory or file yet.
NoHandle == [process |-> 0, dir |-> 0, resume |-> 0]

RunInitOver(S) ==
    /\ req = [r \in S |-> NoRequest]
    /\ fg = [r \in S |-> "idle"]
    /\ fgErr = [r \in S |-> "none"]
    /\ session_id = [r \in S |-> <<>>]
    /\ live_view_url = [r \in S |-> ""]
    /\ portBound = [r \in S |-> FALSE]
    /\ user_data_dir = [r \in S |-> "none"]
    /\ chrome_process = [r \in S |-> "none"]
    /\ probes = [r \in S |-> 0]
    /\ bg = [r \in S |-> "none"]
    /\ exc = [r \in S |-> "none"]
    /\ taskEnd = [r \in S |-> "none"]
    /\ file_path = [r \in S |-> "None"]
    /\ resumeFile = [r \in S |-> "none"]
    /\ agentResult = [r \in S |-> "none"]
    /\ cleanupEntered = [r \in S |-> 0]
    /\ cleanupSteps = [r \in S |-> {}]
    /\ playwright_browser = NoRun
    /\ playwright_page = NoRun
    /\ handle = [r \in S |-> NoHandle]

RunInit == RunInitOver(Runs)

HookInit ==
    /\ posts = <<>>
    /\ hook = NoHook
    /\ check = NoCheck
    /\ view = NoView

Init == RunInit /\ HookInit

\* ------------------------------------------------- processes and files
\* The processes, directories or file paths (by field) that runs hold.
Held(field) == {handle[o][field] : o \in DOMAIN handle} \ {0}

\* A process just created, a directory name mkdtemp just made, a uuid4 file
\* name: one that no run holds.
Fresh(ids) ==
    CHOOSE i \in 1..(Cardinality(ids) + 1) :
        i \notin ids /\ \A j \in 1..(i - 1) : j \in ids

\* process.terminate() / process.kill(): the process object that is
\* signalled, whichever runs hold it.
Signalled(process, signal) ==
    [o \in DOMAIN chrome_process |->
        IF handle[o].process = process THEN signal ELSE chrome_process[o]]

\* shutil.rmtree(user_data_dir, ignore_errors=True) on a directory name.
RemovedTree(dir) ==
    [o \in DOMAIN user_data_dir |->
        IF handle[o].dir = dir /\ user_data_dir[o] = "exists"
        THEN "removed" ELSE user_data_dir[o]]

\* cleanup_resume(file_path): os.remove of the path if it exists.
RemovedFile(path) ==
    [o \in DOMAIN resumeFile |->
        IF handle[o].resume = path /\ resumeFile[o] = "exists"
        THEN "removed" ELSE resumeFile[o]]

\* ------------------------------------------------- start_agent (foreground)
\* start_agent without its check of resume_url.
ValidationError_NoResumeCheck(q) ==
    IF q.user_id = "" THEN "User ID is required"
    ELSE IF q.url = "" THEN "URL is required"
    ELSE IF q.profile = "" THEN "Profile is required"
    ELSE "none"

\* The four checks at the head of start_agent, in the order of the code.
ValidationError(q) ==
    IF q.user_id = "" THEN "User ID is required"
    ELSE IF q.url = "" THEN "URL is required"
    ELSE IF q.profile = "" THEN "Profile is required"
    ELSE IF q.resume_url = "" THEN "Resume URL or file path is required"
    ELSE "none"

\* No other coroutine has the thread of the event loop in a call that does
\* not await (the requests.get of download_resume): run r can be resumed.
LoopFree(r) == \A o \in DOMAIN bg \ {r} : bg[o] # "downloading"

\* start_agent with one fixed profile directory name in place of the name
\* tempfile.mkdtemp makes up.
StartAgent_FixedProfileDir(r) ==
    /\ LoopFree(r)
    /\ fg[r] = "idle"
    /\ \E q \in Requests :
        /\ req' = [req EXCEPT ![r] = q]
        /\ IF ValidationError(q) # "none"
           THEN /\ fg' = [fg EXCEPT ![r] = "raised"]
                /\ fgErr' = [fgErr EXCEPT ![r] = ValidationError(q)]
                /\ UNCHANGED <<portBound, user_data_dir, handle>>
           ELSE /\ fg' = [fg EXCEPT ![r] = "find_chrome"]
                /\ portBound' = [portBound EXCEPT ![r] = TRUE]
                /\ user_data_dir' = [user_data_dir EXCEPT ![r] = "exists"]
                /\ handle' = [handle EXCEPT ![r].dir = 1]
                /\ UNCHANGED fgErr
    /\ UNCHANGED <<session_id, live_view_url, chrome_process, probes, bg, exc,
                   taskEnd, file_path, resumeFile, agentResult, cleanupEntered,
                   cleanupSteps, playwright_browser, playwright_page>>
    /\ UNCHANGED <<hookVars, view>>

\* start_agent up to the first await of start_chrome_with_debug_port:
\* validation, then _find_free_port and tempfile.mkdtemp.
StartAgent(r) ==
    /\ LoopFree(r)
    /\ fg[r] = "idle"
    /\ \E q \in Requests :
        /\ req' = [req EXCEPT ![r] = q]
        /\ IF ValidationError(q) # "none"
           THEN /\ fg' = [fg EXCEPT ![r] = "raised"]
                /\ fgErr' = [fgErr EXCEPT ![r] = ValidationError(q)]
                /\ UNCHANGED <<portBound, user_data_dir, handle>>
           ELSE /\ fg' = [fg EXCEPT ![r] = "find_chrome"]
                /\ portBound' = [portBound EXCEPT ![r] = TRUE]
                /\ user_data_dir' = [user_data_dir EXCEPT ![r] = "exists"]
                /\ handle' = [handle EXCEPT ![r].dir = Fresh(Held("dir"))]
                /\ UNCHANGED fgErr
    /\ UNCHANGED <<session_id, live_view_url, chrome_process, probes, bg, exc,
                   taskEnd, file_path, resumeFile, agentResult, cleanupEntered,
                   cleanupSteps, playwright_browser, playwright_page>>
    /\ UNCHANGED <<hookVars, view>>

\* start_chrome_with_debug_port creating the background task as soon as the
\* process is launched, before the readiness loop and the live view lookup.
FindChrome_SchedulesTask(r) ==
    /\ LoopFree(r)
    /\ fg[r] = "find_chrome"
    /\ \E found \in BOOLEAN :
        IF found
        THEN /\ chrome_process' = [chrome_process EXCEPT ![r] = "running"]
             /\ handle' =
                  [handle EXCEPT ![r].process = Fresh(Held("process"))]
             /\ fg' = [fg EXCEPT ![r] = "polling"]
             /\ bg' = [bg EXCEPT ![r] = "scheduled"]
             /\ UNCHANGED fgErr
        ELSE /\ fg' = [fg EXCEPT ![r] = "raised"]
             /\ fgErr' = [fgErr EXCEPT ![r] = "Chrome not found"]
             /\ UNCHANGED <<chrome_process, handle, bg>>
    /\ UNCHANGED <<req, session_id, live_view_url, portBound, user_data_dir,
                   probes, exc, taskEnd, file_path, resumeFile,
                   agentResult, cleanupEntered, cleanupSteps,
                   playwright_browser, playwright_page>>
    /\ UNCHANGED <<hookVars, view>>

\* The loop over chrome_paths and the launch of the browser process.
FindChrome(r) ==
    /\ LoopFree(r)
    /\ fg[r] = "find_chrome"
    /\ \E found \in BOOLEAN :
        IF found
        THEN /\ chrome_process' = [chrome_process EXCEPT ![r] = "running"]
             /\ handle' =
                  [handle EXCEPT ![r].process = Fresh(Held("process"))]
             /\ fg' = [fg EXCEPT ![r] = "polling"]
             /\ UNCHANGED fgErr
        ELSE /\ fg' = [fg EXCEPT ![r] = "raised"]
             /\ fgErr' = [fgErr EXCEPT ![r] = "Chrome not found"]
             /\ UNCHANGED <<chrome_process, handle>>
    /\ UNCHANGED <<req, session_id, live_view_url, portBound, user_data_dir,
                   probes, bg, exc, taskEnd, file_path, resumeFile,
                   agentResult, cleanupEntered, cleanupSteps,
                   playwright_browser, playwright_page>>
    /\ UNCHANGED <<hookVars, view>>

\* The readiness loop with one iteration more than range(20) gives.
ProbeReadiness_OneMore(r) ==
    /\ LoopFree(r)
    /\ fg[r] = "polling"
    /\ probes[r] <= ReadinessAttempts
    /\ \E answer \in {"200", "non200", "exception"} :
        IF answer = "200"
        THEN /\ fg' = [fg EXCEPT ![r] = "live_view"]
             /\ probes' = [probes EXCEPT ![r] = 0]
        ELSE /\ probes' = [probes EXCEPT ![r] = @ + 1]
             /\ UNCHANGED fg
    /\ UNCHANGED <<handle, req, fgErr, session_id, live_view_url, portBound,
                   user_data_dir, chrome_process, bg, exc, taskEnd, file_path,
                   resumeFile, agentResult, cleanupEntered, cleanupSteps,
                   playwright_browser, playwright_page>>
    /\ UNCHANGED <<hookVars, view>>

\* One iteration of the readiness loop: GET /json/version, then either break
\* on status 200 (start_chrome_with_debug_port returns and its loop counter
\* is gone) or sleep one second.
ProbeReadiness(r) ==
    /\ LoopFree(r)
    /\ fg[r] = "polling"
    /\ probes[r] < ReadinessAttempts
    /\ \E answer \in {"200", "non200", "exception"} :
        IF answer = "200"
        THEN /\ fg' = [fg EXCEPT ![r] = "live_view"]
             /\ probes' = [probes EXCEPT ![r] = 0]
        ELSE /\ probes' = [probes EXCEPT ![r] = @ + 1]
             /\ UNCHANGED fg
    /\ UNCHANGED <<handle, req, fgErr, session_id, live_view_url, portBound,
                   user_data_dir, chrome_process, bg, exc, taskEnd, file_path,
                   resumeFile, agentResult, cleanupEntered, cleanupSteps,
                   playwright_browser, playwright_page>>
    /\ UNCHANGED <<hookVars, view>>

\* The failure path of the readiness loop without process.terminate().
ReadinessFailed_NoTerminate(r) ==
    /\ LoopFree(r)
    /\ fg[r] = "polling"
    /\ probes[r] = ReadinessAttempts
    /\ fg' = [fg EXCEPT ![r] = "raised"]
    /\ fgErr' = [fgErr EXCEPT ![r] = "Chrome failed to start with CDP"]
    /\ UNCHANGED <<handle, req, session_id, live_view_url, portBound, user_data_dir,
                   chrome_process, probes, bg, exc, taskEnd, file_path,
                   resumeFile, agentResult, cleanupEntered, cleanupSteps,
                   playwright_browser, playwright_page>>
    /\ UNCHANGED <<hookVars, view>>

\* "if not cdp_ready": terminate the process, wait for it, raise.
ReadinessFailed(r) ==
    /\ LoopFree(r)
    /\ fg[r] = "polling"
    /\ probes[r] = ReadinessAttempts
    /\ chrome_process' = Signalled(handle[r].process, "terminated")
    /\ fg' = [fg EXCEPT ![r] = "raised"]
    /\ fgErr' = [fgErr EXCEPT ![r] = "Chrome failed to start with CDP"]
    /\ UNCHANGED <<handle, req, session_id, live_view_url, portBound, user_data_dir,
                   probes, bg, exc, taskEnd, file_path, resumeFile,
                   agentResult, cleanupEntered, cleanupSteps,
                   playwright_browser, playwright_page>>
    /\ UNCHANGED <<hookVars, view>>

\* The tail of start_agent awaiting the task it created instead of
\* returning.
ReturnSession_AwaitsTask(r) ==
    /\ LoopFree(r)
    /\ fg[r] = "live_view"
    /\ \E resolved \in BOOLEAN :
        live_view_url' = [live_view_url EXCEPT ![r] =
                            IF resolved THEN "devtools_frontend_url"
                            ELSE "public_cdp_url/json"]
    /\ session_id' = [session_id EXCEPT ![r] = <<r>>]
    /\ bg' = [bg EXCEPT ![r] = "scheduled"]
    /\ fg' = [fg EXCEPT ![r] = "awaiting_task"]
    /\ UNCHANGED <<handle, req, fgErr, portBound, user_data_dir, chrome_process,
                   probes, exc, taskEnd, file_path, resumeFile, agentResult,
                   cleanupEntered, cleanupSteps, playwright_browser,
                   playwright_page>>
    /\ UNCHANGED <<hookVars, view>>

\* resolve_live_view_url and the tail of start_agent: the fallback URL, the
\* uuid4 session id, asyncio.create_task and the return.
ReturnSession(r) ==
    /\ LoopFree(r)
    /\ fg[r] = "live_view"
    /\ \E resolved \in BOOLEAN :
        live_view_url' = [live_view_url EXCEPT ![r] =
                            IF resolved THEN "devtools_frontend_url"
                            ELSE "public_cdp_url/json"]
    /\ session_id' = [session_id EXCEPT ![r] = <<r>>]
    /\ bg' = [bg EXCEPT ![r] = "scheduled"]
    /\ fg' = [fg EXCEPT ![r] = "returned"]
    /\ UNCHANGED <<handle, req, fgErr, portBound, user_data_dir, chrome_process,
                   probes, exc, taskEnd, file_path, resumeFile, agentResult,
                   cleanupEntered, cleanupSteps, playwright_browser,
                   playwright_page>>
    /\ UNCHANGED <<hookVars, view>>

\* ------------------------------------- _run_agent_background (the task)
\* Entry of the finally block, reached without an await from the point where
\* the try body ended or raised.  pb is the value of the module global
\* playwright_browser at that moment.  A connected bridge is closed first
\* (an await); otherwise the code goes straight on to terminate the process.
EnterFinally(r, pb) ==
    /\ cleanupEntered' = [cleanupEntered EXCEPT ![r] = @ + 1]
    /\ IF pb # NoRun
       THEN /\ bg' = [bg EXCEPT ![r] = "closing"]
            /\ cleanupSteps' = [cleanupSteps EXCEPT ![r] = @ \cup {"close"}]
            /\ UNCHANGED chrome_process
       ELSE /\ bg' = [bg EXCEPT ![r] = "wait_process"]
            /\ cleanupSteps' =
                 [cleanupSteps EXCEPT ![r] = @ \cup {"terminate"}]
            /\ chrome_process' = Signalled(handle[r].process, "terminated")

\* cleanup_resume(file_path) under "if file_path", and the end of the task:
\* the exception in flight, if any, leaves the task once finally is done.
FinishTask(r) ==
    /\ IF file_path[r] # "None"
       THEN /\ resumeFile' = RemovedFile(handle[r].resume)
            /\ cleanupSteps' =
                 [cleanupSteps EXCEPT ![r] = @ \cup {"cleanup_resume"}]
       ELSE UNCHANGED <<resumeFile, cleanupSteps>>
    /\ bg' = [bg EXCEPT ![r] = "done"]
    /\ taskEnd' = [taskEnd EXCEPT ![r] =
                     IF exc[r] = "none" THEN "returned" ELSE "exception"]

\* download_resume awaited by start_agent itself, ahead of its return.
BgDownload_BeforeReturn(r) ==
    /\ LoopFree(r)
    /\ fg[r] = "live_view"
    /\ bg[r] = "none"
    /\ \E outcome \in {"ok", "get_failed", "write_failed"} :
        /\ resumeFile' = [resumeFile EXCEPT ![r] =
                            IF outcome = "get_failed" THEN @ ELSE "exists"]
        /\ handle' = IF outcome = "get_failed" THEN handle
                     ELSE [handle EXCEPT ![r].resume = Fresh(Held("resume"))]
        /\ IF outcome = "ok"
           THEN /\ file_path' = [file_path EXCEPT ![r] = "local_path"]
                /\ bg' = [bg EXCEPT ![r] = "connect"]
                /\ UNCHANGED <<exc, cleanupEntered, cleanupSteps,
                               chrome_process>>
           ELSE /\ exc' = [exc EXCEPT ![r] = "download_resume"]
                /\ EnterFinally(r, playwright_browser)
                /\ UNCHANGED file_path
    /\ UNCHANGED <<req, fg, fgErr, session_id, live_view_url, portBound,
                   user_data_dir, probes, taskEnd, agentResult,
                   playwright_browser, playwright_page>>
    /\ UNCHANGED <<hookVars, view>>

\* Start of the task: file_path = download_resume(resume_url), a plain call
\* of a function that calls requests.get.  The thread of the event loop is
\* inside that call until the answer is there or the 30 s timeout is over.
BgDownloadStart(r) ==
    /\ LoopFree(r)
    /\ bg[r] = "scheduled"
    /\ bg' = [bg EXCEPT ![r] = "downloading"]
    /\ UNCHANGED <<handle, req, fg, fgErr, session_id, live_view_url, portBound,
                   user_data_dir, chrome_process, probes, exc, taskEnd,
                   file_path, resumeFile, agentResult, cleanupEntered,
                   cleanupSteps, playwright_browser, playwright_page>>
    /\ UNCHANGED <<hookVars, view>>

\* The end of download_resume(resume_url).  It either returns the
\* local path, or raises before the file is opened, or raises after
\* open(local_path, "wb") created the file.
BgDownload(r) ==
    /\ LoopFree(r)
    /\ bg[r] = "downloading"
    /\ \E outcome \in {"ok", "get_failed", "write_failed"} :
        /\ resumeFile' = [resumeFile EXCEPT ![r] =
                            IF outcome = "get_failed" THEN @ ELSE "exists"]
        /\ handle' = IF outcome = "get_failed" THEN handle
                     ELSE [handle EXCEPT ![r].resume = Fresh(Held("resume"))]
        /\ IF outcome = "ok"
           THEN /\ file_path' = [file_path EXCEPT ![r] = "local_path"]
                /\ bg' = [bg EXCEPT ![r] = "connect"]
                /\ UNCHANGED <<exc, cleanupEntered, cleanupSteps,
                               chrome_process>>
           ELSE /\ exc' = [exc EXCEPT ![r] = "download_resume"]
                /\ EnterFinally(r, playwright_browser)
                /\ UNCHANGED file_path
    /\ UNCHANGED <<req, fg, fgErr, session_id, live_view_url, portBound,
                   user_data_dir, probes, taskEnd, agentResult,
                   playwright_browser, playwright_page>>
    /\ UNCHANGED <<hookVars, view>>

\* The bridge connection with its raise placed outside the try statement:
\* a failed connection ends the task without the finally block.
BgConnect_RaiseOutsideTry(r) ==
    /\ LoopFree(r)
    /\ bg[r] = "connect"
    /\ \E outcome \in {"connect_failed", "construct_failed", "ok"} :
        IF outcome = "connect_failed"
        THEN /\ playwright_browser' = NoRun
             /\ playwright_page' = NoRun
             /\ exc' = [exc EXCEPT ![r] = "playwright_connect"]
             /\ bg' = [bg EXCEPT ![r] = "done"]
             /\ taskEnd' = [taskEnd EXCEPT ![r] = "exception"]
             /\ UNCHANGED <<cleanupEntered, cleanupSteps, chrome_process>>
        ELSE /\ playwright_browser' = r
             /\ playwright_page' = r
             /\ UNCHANGED taskEnd
             /\ IF outcome = "construct_failed"
                THEN /\ exc' = [exc EXCEPT ![r] = "agent_construct"]
                     /\ EnterFinally(r, r)
                ELSE /\ bg' = [bg EXCEPT ![r] = "agent"]
                     /\ UNCHANGED <<exc, cleanupEntered, cleanupSteps,
                                    chrome_process>>
    /\ UNCHANGED <<handle, req, fg, fgErr, session_id, live_view_url, portBound,
                   user_data_dir, probes, file_path, resumeFile,
                   agentResult>>
    /\ UNCHANGED <<hookVars, view>>

\* connect_playwright_to_cdp failing after "playwright_browser = browser"
\* with an except clause that does not reset the two globals.
BgConnect_NoResetOnFailure(r) ==
    /\ LoopFree(r)
    /\ bg[r] = "connect"
    /\ \E outcome \in {"connect_failed", "construct_failed", "ok"} :
        IF outcome = "connect_failed"
        THEN /\ playwright_browser' = r
             /\ UNCHANGED playwright_page
             /\ exc' = [exc EXCEPT ![r] = "playwright_connect"]
             /\ EnterFinally(r, r)
        ELSE /\ playwright_browser' = r
             /\ playwright_page' = r
             /\ IF outcome = "construct_failed"
                THEN /\ exc' = [exc EXCEPT ![r] = "agent_construct"]
                     /\ EnterFinally(r, r)
                ELSE /\ bg' = [bg EXCEPT ![r] = "agent"]
                     /\ UNCHANGED <<exc, cleanupEntered, cleanupSteps,
                                    chrome_process>>
    /\ UNCHANGED <<handle, req, fg, fgErr, session_id, live_view_url, portBound,
                   user_data_dir, probes, taskEnd, file_path, resumeFile,
                   agentResult>>
    /\ UNCHANGED <<hookVars, view>>

\* await connect_playwright_to_cdp(cdp_url) and the code up to the next
\* await: the raise on a False result, or the construction of BrowserSession,
\* ChatBrowserUse and Agent, which may raise.
BgConnect(r) ==
    /\ LoopFree(r)
    /\ bg[r] = "connect"
    /\ \E outcome \in {"connect_failed", "construct_failed", "ok"} :
        IF outcome = "connect_failed"
        THEN /\ playwright_browser' = NoRun
             /\ playwright_page' = NoRun
             /\ exc' = [exc EXCEPT ![r] = "playwright_connect"]
             /\ EnterFinally(r, NoRun)
        ELSE /\ playwright_browser' = r
             /\ playwright_page' = r
             /\ IF outcome = "construct_failed"
                THEN /\ exc' = [exc EXCEPT ![r] = "agent_construct"]
                     /\ EnterFinally(r, r)
                ELSE /\ bg' = [bg EXCEPT ![r] = "agent"]
                     /\ UNCHANGED <<exc, cleanupEntered, cleanupSteps,
                                    chrome_process>>
    /\ UNCHANGED <<handle, req, fg, fgErr, session_id, live_view_url, portBound,
                   user_data_dir, probes, taskEnd, file_path, resumeFile,
                   agentResult>>
    /\ UNCHANGED <<hookVars, view>>

\* await agent.run() returns or raises; on return the result is converted
\* and written to result_<time>.json, which may raise as well.
BgAgentRun(r) ==
    /\ LoopFree(r)
    /\ bg[r] = "agent"
    /\ \E outcome \in {"run_raised", "save_failed", "saved"},
          successful \in BOOLEAN :
        /\ agentResult' = [agentResult EXCEPT ![r] =
                             IF outcome = "run_raised" THEN "raised"
                             ELSE IF successful THEN "successful"
                             ELSE "unsuccessful"]
        /\ exc' = [exc EXCEPT ![r] =
                     IF outcome = "run_raised" THEN "agent_run"
                     ELSE IF outcome = "save_failed" THEN "save_result"
                     ELSE @]
    /\ EnterFinally(r, playwright_browser)
    /\ UNCHANGED <<handle, req, fg, fgErr, session_id, live_view_url, portBound,
                   user_data_dir, probes, taskEnd, file_path, resumeFile,
                   playwright_browser, playwright_page>>
    /\ UNCHANGED <<hookVars, view>>

\* finally: "await playwright_browser.close()" completes.  On success the
\* two globals are reset and the process is terminated; when close raises,
\* the except clause of the same try is taken, which skips the rest of that
\* try, and the code continues with cleanup_resume.
CloseBridge(r) ==
    /\ LoopFree(r)
    /\ bg[r] = "closing"
    /\ \E closed \in BOOLEAN :
        IF closed
        THEN /\ playwright_browser' = NoRun
             /\ playwright_page' = NoRun
             /\ chrome_process' = Signalled(handle[r].process, "terminated")
             /\ cleanupSteps' =
                  [cleanupSteps EXCEPT ![r] = @ \cup {"reset", "terminate"}]
             /\ bg' = [bg EXCEPT ![r] = "wait_process"]
             /\ UNCHANGED <<resumeFile, taskEnd>>
        ELSE /\ FinishTask(r)
             /\ UNCHANGED <<playwright_browser, playwright_page,
                            chrome_process>>
    /\ UNCHANGED <<handle, req, fg, fgErr, session_id, live_view_url, portBound,
                   user_data_dir, probes, exc, file_path, agentResult,
                   cleanupEntered>>
    /\ UNCHANGED <<hookVars, view>>

\* finally: "await asyncio.wait_for(chrome_process.wait(), 5)" completes or
\* times out (then kill), shutil.rmtree removes the profile directory, and
\* the code continues with cleanup_resume.
WaitProcess(r) ==
    /\ LoopFree(r)
    /\ bg[r] = "wait_process"
    /\ \E timeout \in BOOLEAN :
        chrome_process' = IF timeout
                          THEN Signalled(handle[r].process, "killed")
                          ELSE chrome_process
    /\ user_data_dir' = RemovedTree(handle[r].dir)
    /\ IF file_path[r] # "None"
       THEN /\ resumeFile' = RemovedFile(handle[r].resume)
            /\ cleanupSteps' = [cleanupSteps EXCEPT ![r] =
                                  @ \cup {"rmtree", "cleanup_resume"}]
       ELSE /\ cleanupSteps' =
                 [cleanupSteps EXCEPT ![r] = @ \cup {"rmtree"}]
            /\ UNCHANGED resumeFile
    /\ bg' = [bg EXCEPT ![r] = "done"]
    /\ taskEnd' = [taskEnd EXCEPT ![r] =
                     IF exc[r] = "none" THEN "returned" ELSE "exception"]
    /\ UNCHANGED <<handle, req, fg, fgErr, session_id, live_view_url, portBound,
                   probes, exc, file_path, agentResult, cleanupEntered,
                   playwright_browser, playwright_page>>
    /\ UNCHANGED <<hookVars, view>>

\* ------------------------------------------------------ POST /apply
\* Status code of the response of the apply endpoint for the start_agent
\* call it awaits: 202 with session_id and live_url when the call returned,
\* HTTPException 500 ("Failed to start agent") for any exception it raised,
\* 0 while there is no response yet.
apply_status_code(r) ==
    IF fg[r] = "returned" THEN 202
    ELSE IF fg[r] = "raised" THEN 500
    ELSE 0

\* ------------------------------------------------------------ specification
Foreground(r) ==
    \/ StartAgent(r)
    \/ FindChrome(r)
    \/ ProbeReadiness(r)
    \/ ReadinessFailed(r)
    \/ ReturnSession(r)

Background(r) ==
    \/ BgDownloadStart(r)
    \/ BgDownload(r)
    \/ BgConnect(r)
    \/ BgAgentRun(r)
    \/ CloseBridge(r)
    \/ WaitProcess(r)

Next == \E r \in Runs : Foreground(r) \/ Background(r)

Spec == Init /\ [][Next]_vars

\* The event loop runs every task that is ready, and each awaited call of
\* the task (the agent included) returns or raises.
FairSpec == Spec /\ \A r \in Runs : WF_vars(Background(r))

\* Two calls of start_agent in flight at once, each with its own task.
ConcRuns == 1..2

ConcInit == RunInitOver(ConcRuns) /\ HookInit

ConcNext == \E r \in ConcRuns : Foreground(r) \/ Background(r)

ConcSpec == ConcInit /\ [][ConcNext]_vars

\* ------------------------------------------------ strings, bytes and HMAC
\* A str is a sequence of code points, a bytes value a sequence of 0..255.
\* str.encode("utf-8") for code points below 2048.
Utf8Char(c) ==
    IF c < 128 THEN <<c>> ELSE <<192 + (c \div 64), 128 + (c % 64)>>

RECURSIVE Utf8From(_, _)
Utf8From(str, i) ==
    IF i > Len(str) THEN <<>> ELSE Utf8Char(str[i]) \o Utf8From(str, i + 1)

Utf8(str) == Utf8From(str, 1)

\* The ASCII code of one lowercase hex digit, and bytes.hex(): two digits
\* for each byte, high nibble first.
HexDigit(d) == IF d < 10 THEN 48 + d ELSE 87 + d

HexString(bytes) ==
    [i \in 1..(2 * Len(bytes)) |->
       IF i % 2 = 1 THEN HexDigit(bytes[(i + 1) \div 2] \div 16)
       ELSE HexDigit(bytes[i \div 2] % 16)]

\* The key block of HMAC: a key of at most one block is padded with zero
\* bytes to the block size of SHA-256.
HmacKeyBlock(key) ==
    [i \in 1..HmacBlockSize |-> IF i <= Len(key) THEN key[i] ELSE 0]

\* hmac.new(key, msg, hashlib.sha256).hexdigest().  SHA-256 is taken to be
\* collision free: the digest stands for the key block and the message it
\* was computed from, which is all that HMAC feeds into the hash.
HmacHexDigest(key, msg) == HexString(HmacKeyBlock(key) \o msg)

\* The str "sha256=".
SchemeTag == <<115, 104, 97, 50, 53, 54, 61>>

StartsWith(str, prefix) ==
    /\ Len(str) >= Len(prefix)
    /\ SubSeq(str, 1, Len(prefix)) = prefix

\* browser.py generate_webhook_signature: the value returned, or the
\* exception raised.
generate_webhook_signature(payload, secret) ==
    IF secret = <<>>
    THEN [raised |-> "ValueError", value |-> <<>>]
    ELSE [raised |-> "none",
          value |-> SchemeTag \o HmacHexDigest(Utf8(secret), Utf8(payload))]

\* A timestamp argument: None, or a str.
NoTimestamp == [kind |-> "None", value |-> <<>>]

StrTimestamp(str) == [kind |-> "str", value |-> str]

\* "if timestamp:" is false for None and for the empty str.
Truthy(timestamp) == timestamp.kind = "str" /\ timestamp.value # <<>>

\* int(str): an optional sign followed by decimal digits; anything else
\* raises ValueError.
Unsigned(str) ==
    IF str # <<>> /\ str[1] \in {43, 45} THEN Tail(str) ELSE str

IsIntLiteral(str) ==
    /\ Unsigned(str) # <<>>
    /\ \A i \in 1..Len(Unsigned(str)) : Unsigned(str)[i] \in 48..57

RECURSIVE DigitsValue(_)
DigitsValue(digits) ==
    IF digits = <<>> THEN 0
    ELSE 10 * DigitsValue(SubSeq(digits, 1, Len(digits) - 1))
         + (digits[Len(digits)] - 48)

IntOf(str) ==
    IF str[1] = 45 THEN 0 - DigitsValue(Unsigned(str))
    ELSE DigitsValue(Unsigned(str))

\* verify_webhook_signature comparing the whole header value, scheme tag
\* included, with the computed digest.
verify_webhook_signature_KeepsTag(payload, signature, secret, timestamp, tolerance, now) ==
    IF signature = <<>> \/ secret = <<>> THEN FALSE
    ELSE IF Truthy(timestamp) /\ ~IsIntLiteral(timestamp.value) THEN FALSE
    ELSE IF Truthy(timestamp) /\ now - IntOf(timestamp.value) > tolerance
         THEN FALSE
    ELSE IF ~StartsWith(signature, SchemeTag) THEN FALSE
    ELSE signature = HmacHexDigest(Utf8(secret), Utf8(payload))

\* verify_webhook_signature rejecting a request that is exactly tolerance
\* seconds old (>= in place of >).
verify_webhook_signature_RejectsAtTolerance(payload, signature, secret, timestamp, tolerance, now) ==
    IF signature = <<>> \/ secret = <<>> THEN FALSE
    ELSE IF Truthy(timestamp) /\ ~IsIntLiteral(timestamp.value) THEN FALSE
    ELSE IF Truthy(timestamp) /\ now - IntOf(timestamp.value) >= tolerance
         THEN FALSE
    ELSE IF ~StartsWith(signature, SchemeTag) THEN FALSE
    ELSE SubSeq(signature, Len(SchemeTag) + 1, Len(signature))
           = HmacHexDigest(Utf8(secret), Utf8(payload))

\* verify_webhook_signature without the check of the scheme tag: a tag is
\* removed when present, and a bare digest is compared as it is.
verify_webhook_signature_NoTagCheck(payload, signature, secret, timestamp, tolerance, now) ==
    IF signature = <<>> \/ secret = <<>> THEN FALSE
    ELSE IF Truthy(timestamp) /\ ~IsIntLiteral(timestamp.value) THEN FALSE
    ELSE IF Truthy(timestamp) /\ now - IntOf(timestamp.value) > tolerance
         THEN FALSE
    ELSE (IF StartsWith(signature, SchemeTag)
          THEN SubSeq(signature, Len(SchemeTag) + 1, Len(signature))
          ELSE signature)
           = HmacHexDigest(Utf8(secret), Utf8(payload))

\* verify_webhook_signature testing only the signature for emptiness, not
\* the secret.
verify_webhook_signature_NoSecretCheck(payload, signature, secret, timestamp, tolerance, now) ==
    IF signature = <<>> THEN FALSE
    ELSE IF Truthy(timestamp) /\ ~IsIntLiteral(timestamp.value) THEN FALSE
    ELSE IF Truthy(timestamp) /\ now - IntOf(timestamp.value) > tolerance
         THEN FALSE
    ELSE IF ~StartsWith(signature, SchemeTag) THEN FALSE
    ELSE SubSeq(signature, Len(SchemeTag) + 1, Len(signature))
           = HmacHexDigest(Utf8(secret), Utf8(payload))

\* webhook.py verify_webhook_signature at time now.  signature is <<>> for
\* None and for the empty str.
verify_webhook_signature(payload, signature, secret, timestamp, tolerance, now) ==
    IF signature = <<>> \/ secret = <<>> THEN FALSE
    ELSE IF Truthy(timestamp) /\ ~IsIntLiteral(timestamp.value) THEN FALSE
    ELSE IF Truthy(timestamp) /\ now - IntOf(timestamp.value) > tolerance
         THEN FALSE
    ELSE IF ~StartsWith(signature, SchemeTag) THEN FALSE
    ELSE SubSeq(signature, Len(SchemeTag) + 1, Len(signature))
           = HmacHexDigest(Utf8(secret), Utf8(payload))

\* webhook.py verify_webhook_request.
verify_webhook_request(request_body, signature_header, timestamp_header, secret, tolerance, now) ==
    verify_webhook_signature(request_body, signature_header, secret,
                             timestamp_header, tolerance, now)

\* ------------------------------------------------------------ json.dumps
\* The str of a user id, URL, header or environment value (the values are
\* named by TLA+ strings, their text is a sequence of code points).
Text(name) ==
    CASE name = "" -> <<>>
      [] name = "u1" -> <<117, 49>>
      [] name = "https://caller/hook" -> <<104, 116, 116, 112, 115, 58, 47, 47, 99, 97, 108, 108, 101, 114, 47, 104, 111, 111, 107>>
      [] name = "https://cloud.stapply.ai" ->
           <<104, 116, 116, 112, 115, 58, 47, 47, 99, 108, 111, 117, 100, 46, 115, 116, 97, 112, 112, 108, 121, 46, 97, 105>>
      [] name = "http://cloud.stapply.ai" ->
           <<104, 116, 116, 112, 58, 47, 47, 99, 108, 111, 117, 100, 46, 115, 116, 97, 112, 112, 108, 121, 46, 97, 105>>
      [] name = "http://cloud.stapply.ai/apply" ->
           <<104, 116, 116, 112, 58, 47, 47, 99, 108, 111, 117, 100, 46, 115, 116, 97, 112, 112, 108, 121, 46, 97, 105, 47, 97, 112, 112, 108, 121>>
      [] name = "https://cloud.stapply.ai.evil.example" ->
           <<104, 116, 116, 112, 115, 58, 47, 47, 99, 108, 111, 117, 100, 46, 115, 116, 97, 112, 112, 108, 121, 46, 97, 105, 46, 101, 118, 105, 108, 46, 101, 120, 97, 109, 112, 108, 101>>
      [] name = "https://evil.example" ->
           <<104, 116, 116, 112, 115, 58, 47, 47, 101, 118, 105, 108, 46, 101, 120, 97, 109, 112, 108, 101>>
      [] name = "production" ->
           <<112, 114, 111, 100, 117, 99, 116, 105, 111, 110>>
      [] name = "Production" ->
           <<80, 114, 111, 100, 117, 99, 116, 105, 111, 110>>
      [] name = "development" ->
           <<100, 101, 118, 101, 108, 111, 112, 109, 101, 110, 116>>
      [] name = "staging" ->
           <<115, 116, 97, 103, 105, 110, 103>>
      [] name = "cloud.stapply.ai" ->
           <<99, 108, 111, 117, 100, 46, 115, 116, 97, 112, 112, 108, 121, 46, 97, 105>>

RECURSIVE JsonInt(_)
JsonInt(n) ==
    IF n < 10 THEN <<48 + n>> ELSE JsonInt(n \div 10) \o <<48 + (n % 10)>>

\* str(n) of an int.
StrOfInt(n) == IF n < 0 THEN <<45>> \o JsonInt(0 - n) ELSE JsonInt(n)

JsonBool(b) == IF b THEN <<116, 114, 117, 101>> ELSE <<102, 97, 108, 115, 101>>

JsonStr(str) == <<34>> \o str \o <<34>>

\* Lexicographic order of two str values, as sorted() orders dict keys.
RECURSIVE StrLess(_, _)
StrLess(a, b) ==
    IF b = <<>> THEN FALSE
    ELSE IF a = <<>> THEN TRUE
    ELSE IF Head(a) # Head(b) THEN Head(a) < Head(b)
    ELSE StrLess(Tail(a), Tail(b))

\* The items of a dict in ascending key order.
SortedItems(items) ==
    LET n == Len(items)
        order == CHOOSE f \in [1..n -> 1..n] :
                   /\ \A i, j \in 1..n : i # j => f[i] # f[j]
                   /\ \A i \in 1..(n - 1) :
                        StrLess(items[f[i]][1], items[f[i + 1]][1])
    IN [i \in 1..n |-> items[order[i]]]

RECURSIVE JsonMembers(_)
JsonMembers(items) ==
    IF items = <<>> THEN <<>>
    ELSE JsonStr(items[1][1]) \o <<58, 32>> \o items[1][2]
         \o (IF Len(items) > 1 THEN <<44, 32>> ELSE <<>>)
         \o JsonMembers(Tail(items))

\* json.dumps(d, sort_keys=...) of a dict given as <<key, rendered value>>
\* items in insertion order.
JsonDumps(items, sort_keys) ==
    <<123>> \o JsonMembers(IF sort_keys THEN SortedItems(items) ELSE items)
    \o <<125>>

\* The dict payload of send_webhook, in the order the code writes its keys;
\* metadata is the empty dict.
WebhookPayload(user_id, success, timestamp) ==
    << <<<<115, 117, 99, 99, 101, 115, 115>>, JsonBool(success)>>,
       <<<<117, 115, 101, 114, 95, 105, 100>>, JsonStr(Text(user_id))>>,
       <<<<109, 101, 116, 97, 100, 97, 116, 97>>, <<123, 125>> >>,
       <<<<116, 105, 109, 101, 115, 116, 97, 109, 112>>, JsonInt(timestamp)>> >>

\* ------------------------------------------------------------ send_webhook
HookUrls == {"", "None", "https://caller/hook"}

\* "if not webhook_url": the empty string, or None.
NoUrl(u) == u \in {"", "None"}
HookUsers == {"", "u1"}
Times == {7, 1000}
SecretChars == {0, 97}
PayloadChars == {97, 233}

Strs(chars, n) == UNION {[1..k -> chars] : k \in 0..n}

\* Values of the environment variable WEBHOOK_SECRET; <<>> is unset or empty.
Secrets == Strs(SecretChars, MaxLen)
Payloads == Strs(PayloadChars, MaxLen)

\* send_webhook signing a serialisation without sort_keys while posting the
\* sorted one.
SendWebhook_SignsUnsortedJson ==
    /\ hook.pc = "idle"
    /\ \E u \in HookUrls, uid \in HookUsers, ok \in BOOLEAN,
          secret \in Secrets, t \in Times :
        LET payload_json == JsonDumps(WebhookPayload(uid, ok, t), TRUE)
            signature == generate_webhook_signature(
                           JsonDumps(WebhookPayload(uid, ok, t), FALSE), secret)
            headers ==
              IF secret # <<>>
              THEN [signature |-> signature.value,
                    timestamp |-> StrTimestamp(StrOfInt(t))]
              ELSE [signature |-> <<>>, timestamp |-> NoTimestamp]
            call == [NoHook EXCEPT !.webhook_url = u, !.user_id = uid,
                                   !.success = ok, !.secret = secret,
                                   !.timestamp = t]
        IN IF NoUrl(u)
           THEN /\ hook' = [call EXCEPT !.pc = "returned"]
                /\ UNCHANGED posts
           ELSE /\ hook' = [call EXCEPT !.pc = "posting", !.posted = 1,
                                        !.signed = (secret # <<>>)]
                /\ posts' = Append(posts, [url |-> u, user_id |-> uid,
                                           success |-> ok, data |-> payload_json,
                                           headers |-> headers])
    /\ UNCHANGED check
    /\ UNCHANGED <<runVars, view>>

\* send_webhook giving up, without a POST, when WEBHOOK_SECRET is not set.
SendWebhook_RequiresSecret ==
    /\ hook.pc = "idle"
    /\ \E u \in HookUrls, uid \in HookUsers, ok \in BOOLEAN,
          secret \in Secrets, t \in Times :
        LET payload_json == JsonDumps(WebhookPayload(uid, ok, t), TRUE)
            signature == generate_webhook_signature(payload_json, secret)
            headers ==
              IF secret # <<>>
              THEN [signature |-> signature.value,
                    timestamp |-> StrTimestamp(StrOfInt(t))]
              ELSE [signature |-> <<>>, timestamp |-> NoTimestamp]
            call == [NoHook EXCEPT !.webhook_url = u, !.user_id = uid,
                                   !.success = ok, !.secret = secret,
                                   !.timestamp = t]
        IN IF NoUrl(u) \/ secret = <<>>
           THEN /\ hook' = [call EXCEPT !.pc = "returned"]
                /\ UNCHANGED posts
           ELSE /\ hook' = [call EXCEPT !.pc = "posting", !.posted = 1,
                                        !.signed = (secret # <<>>)]
                /\ posts' = Append(posts, [url |-> u, user_id |-> uid,
                                           success |-> ok, data |-> payload_json,
                                           headers |-> headers])
    /\ UNCHANGED check
    /\ UNCHANGED <<runVars, view>>

\* send_webhook without the test of webhook_url.
SendWebhook_NoUrlTest ==
    /\ hook.pc = "idle"
    /\ \E u \in HookUrls, uid \in HookUsers, ok \in BOOLEAN,
          secret \in Secrets, t \in Times :
        LET payload_json == JsonDumps(WebhookPayload(uid, ok, t), TRUE)
            signature == generate_webhook_signature(payload_json, secret)
            headers ==
              IF secret # <<>>
              THEN [signature |-> signature.value,
                    timestamp |-> StrTimestamp(StrOfInt(t))]
              ELSE [signature |-> <<>>, timestamp |-> NoTimestamp]
            call == [NoHook EXCEPT !.webhook_url = u, !.user_id = uid,
                                   !.success = ok, !.secret = secret,
                                   !.timestamp = t]
        IN /\ hook' = [call EXCEPT !.pc = "posting", !.posted = 1,
                                   !.signed = (secret # <<>>)]
           /\ posts' = Append(posts, [url |-> u, user_id |-> uid,
                                      success |-> ok, data |-> payload_json,
                                      headers |-> headers])
    /\ UNCHANGED check
    /\ UNCHANGED <<runVars, view>>

\* send_webhook up to its await: the early return without a URL, the payload,
\* its serialisation, the signature headers and the POST request.
SendWebhook ==
    /\ hook.pc = "idle"
    /\ \E u \in HookUrls, uid \in HookUsers, ok \in BOOLEAN,
          secret \in Secrets, t \in Times :
        LET payload_json == JsonDumps(WebhookPayload(uid, ok, t), TRUE)
            signature == generate_webhook_signature(payload_json, secret)
            headers ==
              IF secret # <<>>
              THEN [signature |-> signature.value,
                    timestamp |-> StrTimestamp(StrOfInt(t))]
              ELSE [signature |-> <<>>, timestamp |-> NoTimestamp]
            call == [NoHook EXCEPT !.webhook_url = u, !.user_id = uid,
                                   !.success = ok, !.secret = secret,
                                   !.timestamp = t]
        IN IF NoUrl(u)
           THEN /\ hook' = [call EXCEPT !.pc = "returned"]
                /\ UNCHANGED posts
           ELSE /\ hook' = [call EXCEPT !.pc = "posting", !.posted = 1,
                                        !.signed = (secret # <<>>)]
                /\ posts' = Append(posts, [url |-> u, user_id |-> uid,
                                           success |-> ok, data |-> payload_json,
                                           headers |-> headers])
    /\ UNCHANGED check
    /\ UNCHANGED <<runVars, view>>

\* The POST completes.  A response, whatever its status, is only logged.  An
\* exception is matched against the except clauses in order:
\* aiohttp.ClientConnectorError is logged; for any other exception the second
\* clause names aiohttp.ClientTimeout, the timeout configuration class that
\* the request itself instantiates, which is not an exception class, so
\* matching against it raises TypeError out of send_webhook.
PostCompletes ==
    /\ hook.pc = "posting"
    /\ \E outcome \in {"200", "non200", "ClientConnectorError",
                       "TimeoutError", "Exception"} :
        hook' = IF outcome \in {"200", "non200", "ClientConnectorError"}
                THEN [hook EXCEPT !.pc = "returned"]
                ELSE [hook EXCEPT !.pc = "raised", !.error = "TypeError"]
    /\ UNCHANGED <<posts, check>>
    /\ UNCHANGED <<runVars, view>>

\* Seconds between the sender's time.time() and the receiver's.
Delays == {0, DefaultTolerance, DefaultTolerance + 1}

\* The receiver of the POST calls verify_webhook_request on the body and the
\* two headers it was sent, with the sender's secret, some delay later.
ReceiveWebhook ==
    /\ hook.pc \in {"posting", "returned", "raised"}
    /\ Len(posts) = 1
    /\ check.op = "none"
    /\ \E delay \in Delays :
        check' = [op |-> "receive", now |-> hook.timestamp + delay,
                  accepted |-> verify_webhook_request(
                                 posts[1].data, posts[1].headers.signature,
                                 posts[1].headers.timestamp, hook.secret,
                                 DefaultTolerance, hook.timestamp + delay)]
    /\ UNCHANGED <<posts, hook>>
    /\ UNCHANGED <<runVars, view>>

\* Timestamp header values someone who replays a recorded request can
\* present at time now: the one that was sent, the present time, none.
ReplayTimestamp(header, sent, now) ==
    CASE header = "sent" -> sent
      [] header = "fresh" -> StrTimestamp(StrOfInt(now))
      [] header = "absent" -> NoTimestamp

\* The body and signature header of a request send_webhook emitted are
\* presented again to verify_webhook_request, some delay after the payload's
\* timestamp, with a timestamp header of the presenter's choice.
ReplayWebhook ==
    /\ hook.pc \in {"posting", "returned", "raised"}
    /\ Len(posts) = 1
    /\ check.op = "none"
    /\ \E delay \in Delays, header \in {"sent", "fresh", "absent"} :
        LET now == hook.timestamp + delay
        IN check' = [op |-> "replay", now |-> now, header |-> header,
                     accepted |-> verify_webhook_request(
                                    posts[1].data, posts[1].headers.signature,
                                    ReplayTimestamp(header,
                                                    posts[1].headers.timestamp,
                                                    now),
                                    hook.secret, DefaultTolerance, now)]
    /\ UNCHANGED <<posts, hook>>
    /\ UNCHANGED <<runVars, view>>

HookNext == SendWebhook \/ PostCompletes \/ ReceiveWebhook \/ ReplayWebhook

HookSpec == Init /\ [][HookNext]_vars

\* ------------------------------------------------------- sign, then verify
\* Sign payload with secret, then verify the signature against payload2 and
\* secret2 with no timestamp.
SignThenVerify ==
    /\ check.op = "none"
    /\ \E payload \in Payloads, secret \in Secrets \ {<<>>},
          payload2 \in Payloads, secret2 \in Secrets, now \in Times :
        LET signature == generate_webhook_signature(payload, secret)
        IN check' = [op |-> "sign_verify", payload |-> payload,
                     secret |-> secret, payload2 |-> payload2,
                     secret2 |-> secret2, now |-> now, raised |-> signature.raised,
                     result |-> verify_webhook_signature(
                                  payload2, signature.value, secret2,
                                  NoTimestamp, DefaultTolerance, now)]
    /\ UNCHANGED <<posts, hook>>
    /\ UNCHANGED <<runVars, view>>

\* Signature header values presented to the verifier, relative to the
\* payload and secret it verifies against: the right signature, none (None
\* or ""), the bare hex digest, the digest under the tag "sha1=", and the
\* right signature of another payload, and the tagged digest under the
\* empty key (hmac.new accepts b"").
SignatureForms ==
    {"correct", "absent", "no_tag", "wrong_tag", "other_payload", "empty_key"}

\* The secret a presented signature was made with: the verifier's, or "a"
\* when the verifier has none.
SignerSecret(secret) == IF secret = <<>> THEN <<97>> ELSE secret

SignatureOf(form, payload, secret) ==
    LET key == Utf8(SignerSecret(secret))
    IN CASE form = "correct" -> SchemeTag \o HmacHexDigest(key, Utf8(payload))
         [] form = "absent" -> <<>>
         [] form = "no_tag" -> HmacHexDigest(key, Utf8(payload))
         [] form = "wrong_tag" ->
              <<115, 104, 97, 49, 61>> \o HmacHexDigest(key, Utf8(payload))
         [] form = "other_payload" ->
              SchemeTag \o HmacHexDigest(key, Utf8(payload \o <<97>>))
         [] form = "empty_key" ->
              SchemeTag \o HmacHexDigest(<<>>, Utf8(payload))

\* Age in seconds of an integer timestamp at verification time.
Ages == {0 - 10, 0, DefaultTolerance, DefaultTolerance + 1}

\* The strs "abc", "12.5" and "-", which int() rejects.
MalformedTimestamps == {<<97, 98, 99>>, <<49, 50, 46, 53>>, <<45>>}

\* Timestamp arguments at time now, each with the kind of case it is.
TimestampCases(now) ==
    {[kind |-> "None", age |-> 0, arg |-> NoTimestamp],
     [kind |-> "empty", age |-> 0, arg |-> StrTimestamp(<<>>)]}
    \cup {[kind |-> "malformed", age |-> 0, arg |-> StrTimestamp(m)] :
            m \in MalformedTimestamps}
    \cup {[kind |-> "int", age |-> a, arg |-> StrTimestamp(StrOfInt(now - a))] :
            a \in Ages}

\* One call of verify_webhook_signature with the default tolerance.
VerifyRequest ==
    /\ check.op = "none"
    /\ \E payload \in Payloads, secret \in Secrets, form \in SignatureForms,
          now \in Times :
        \E ts \in TimestampCases(now) :
            check' = [op |-> "verify", payload |-> payload, secret |-> secret,
                      form |-> form, now |-> now, kind |-> ts.kind,
                      age |-> ts.age, timestamp |-> ts.arg,
                      result |-> verify_webhook_signature(
                                   payload, SignatureOf(form, payload, secret),
                                   secret, ts.arg, DefaultTolerance, now)]
    /\ UNCHANGED <<posts, hook>>
    /\ UNCHANGED <<runVars, view>>

\* One call of generate_webhook_signature.
Sign ==
    /\ check.op = "none"
    /\ \E payload \in Payloads, secret \in Secrets :
        LET signature == generate_webhook_signature(payload, secret)
        IN check' = [op |-> "sign", payload |-> payload, secret |-> secret,
                     raised |-> signature.raised, value |-> signature.value]
    /\ UNCHANGED <<posts, hook>>
    /\ UNCHANGED <<runVars, view>>

SignNext == SignThenVerify \/ VerifyRequest \/ Sign

SignSpec == Init /\ [][SignNext]_vars

\* ------------------------------------------------------------ urllib.parse
\* Strings are sequences of code points, as above.  47 is "/", 58 ":",
\* 63 "?", 35 "#", 59 ";", 38 "&", 61 "=", 43 "+", 37 "%", 32 the space.
Least(S) == CHOOSE m \in S : \A x \in S : m <= x

Greatest(S) == CHOOSE m \in S : \A x \in S : m >= x

\* str.find(sub) counted from 1; 0 when sub does not occur.
Find(sub, str) ==
    LET hits == {k \in 1..(Len(str) - Len(sub) + 1) :
                    SubSeq(str, k, k + Len(sub) - 1) = sub}
    IN  IF hits = {} THEN 0 ELSE Least(hits)

\* str.rfind(sub) counted from 1; 0 when sub does not occur.
RFind(sub, str) ==
    LET hits == {k \in 1..(Len(str) - Len(sub) + 1) :
                    SubSeq(str, k, k + Len(sub) - 1) = sub}
    IN  IF hits = {} THEN 0 ELSE Greatest(hits)

\* str[k:] and str[:k] with k counted from 1 (From keeps position k,
\* Before stops in front of it).
From(str, k) == SubSeq(str, k, Len(str))

Before(str, k) == SubSeq(str, 1, k - 1)

\* str.lstrip("/")
LStripSlash(str) ==
    LET other == {k \in 1..Len(str) : str[k] # 47}
    IN  IF other = {} THEN <<>> ELSE From(str, Least(other))

IsAlpha(c) == c \in 65..90 \/ c \in 97..122

IsDigit(c) == c \in 48..57

Lower(c) == IF c \in 65..90 THEN c + 32 ELSE c

\* urllib.parse.scheme_chars
IsSchemeChar(c) == IsAlpha(c) \/ IsDigit(c) \/ c \in {43, 45, 46}

HttpScheme == <<104, 116, 116, 112>>

HttpsScheme == <<104, 116, 116, 112, 115>>

WsPrefix == <<119, 115, 58, 47, 47>>

WssPrefix == <<119, 115, 115, 58, 47, 47>>

SchemeSep == <<58, 47, 47>>

\* The schemes of urllib.parse.uses_params that occur here ("", http,
\* https); ws and wss are not among uses_params.
UsesParams(scheme) == scheme \in {<<>>, HttpScheme, HttpsScheme}

\* urlsplit, the scheme: what stands before the first ":" when it begins
\* with a letter and holds only scheme characters, in lower case.
SplitScheme(url) ==
    LET colon == Find(<<58>>, url)
    IN  IF /\ colon > 1
           /\ IsAlpha(url[1])
           /\ \A k \in 1..(colon - 1) : IsSchemeChar(url[k])
        THEN [scheme |-> [k \in 1..(colon - 1) |-> Lower(url[k])],
              rest |-> From(url, colon + 1)]
        ELSE [scheme |-> <<>>, rest |-> url]

\* urlsplit, the netloc: after "//", up to the first of "/", "?" and "#".
SplitNetloc(rest) ==
    LET delims == {k \in 3..Len(rest) : rest[k] \in {47, 63, 35}}
    IN  IF SubSeq(rest, 1, 2) # <<47, 47>>
        THEN [netloc |-> <<>>, rest |-> rest]
        ELSE IF delims = {}
        THEN [netloc |-> From(rest, 3), rest |-> <<>>]
        ELSE [netloc |-> SubSeq(rest, 3, Least(delims) - 1),
              rest |-> From(rest, Least(delims))]

\* str.partition(mark) without the mark: what stands before its first
\* occurrence and what stands after it.
CutAt(mark, str) ==
    LET k == Find(<<mark>>, str)
    IN  IF k = 0 THEN [head |-> str, tail |-> <<>>]
        ELSE [head |-> Before(str, k), tail |-> From(str, k + 1)]

\* urlparse, the params: from the first ";" of the last path segment, for
\* the schemes of uses_params.
SplitParams(scheme, path) ==
    LET semis == {k \in 1..Len(path) :
                     path[k] = 59 /\ k >= RFind(<<47>>, path)}
    IN  IF UsesParams(scheme) /\ semis # {}
        THEN [path |-> Before(path, Least(semis)),
              params |-> From(path, Least(semis) + 1)]
        ELSE [path |-> path, params |-> <<>>]

\* The six parts put together.
ParseResult(scheme, netloc, path, query, fragment) ==
    [scheme |-> scheme,
     netloc |-> netloc,
     path |-> SplitParams(scheme, path).path,
     params |-> SplitParams(scheme, path).params,
     query |-> query,
     fragment |-> fragment]

\* The parts of what follows the scheme.
ParseRest(scheme, afterNetloc, netloc) ==
    ParseResult(scheme, netloc,
                CutAt(63, CutAt(35, afterNetloc).head).head,
                CutAt(63, CutAt(35, afterNetloc).head).tail,
                CutAt(35, afterNetloc).tail)

\* urllib.parse.urlparse: urlsplit (scheme, netloc, fragment, query), then
\* the ";" parameters of the last path segment.
urlparse(url) ==
    ParseRest(SplitScheme(url).scheme,
              SplitNetloc(SplitScheme(url).rest).rest,
              SplitNetloc(SplitScheme(url).rest).netloc)

\* urllib.parse.urlunparse (urlunsplit after the params are put back).
urlunparse(parts) ==
    LET url1 == IF parts.params # <<>>
                THEN parts.path \o <<59>> \o parts.params ELSE parts.path
        url2 == IF parts.netloc # <<>>
                   \/ (parts.scheme # <<>> /\ SubSeq(url1, 1, 2) # <<47, 47>>)
                THEN <<47, 47>> \o parts.netloc \o
                     (IF url1 # <<>> /\ url1[1] # 47
                      THEN <<47>> \o url1 ELSE url1)
                ELSE url1
        url3 == IF parts.scheme # <<>>
                THEN parts.scheme \o <<58>> \o url2 ELSE url2
        url4 == IF parts.query # <<>>
                THEN url3 \o <<63>> \o parts.query ELSE url3
    IN  IF parts.fragment # <<>>
        THEN url4 \o <<35>> \o parts.fragment ELSE url4

\* ParseResult.port: the digits after the last ":" of the host part of the
\* netloc, as an integer; 0 stands for None (no port).
PortOf(netloc) ==
    LET at == RFind(<<64>>, netloc)
        hostinfo == From(netloc, at + 1)
        colon == Find(<<58>>, hostinfo)
        digits == From(hostinfo, colon + 1)
    IN  IF colon = 0 \/ digits = <<>> THEN 0 ELSE DigitsValue(digits)

\* str.split(sep) for a one-character separator.
RECURSIVE Split(_, _)
Split(str, sep) ==
    LET k == Find(<<sep>>, str)
    IN  IF k = 0 THEN <<str>>
        ELSE <<Before(str, k)>> \o Split(From(str, k + 1), sep)

HexValue(c) ==
    IF c \in 48..57 THEN c - 48
    ELSE IF c \in 65..70 THEN c - 55
    ELSE IF c \in 97..102 THEN c - 87
    ELSE 0 - 1

\* name.replace("+", " ") followed by urllib.parse.unquote, for escapes of
\* ASCII characters (%00..%7F); other "%" sequences are left as they are.
RECURSIVE UnquotePlus(_)
UnquotePlus(str) ==
    IF str = <<>> THEN <<>>
    ELSE IF str[1] = 43 THEN <<32>> \o UnquotePlus(Tail(str))
    ELSE IF /\ str[1] = 37
            /\ Len(str) >= 3
            /\ HexValue(str[2]) \in 0..7
            /\ HexValue(str[3]) >= 0
         THEN <<16 * HexValue(str[2]) + HexValue(str[3])>>
              \o UnquotePlus(From(str, 4))
    ELSE <<str[1]>> \o UnquotePlus(Tail(str))

UpperHexDigit(d) == IF d < 10 THEN 48 + d ELSE 55 + d

\* urllib.parse.quote_plus: letters, digits and "_.-~" are kept, the space
\* becomes "+", every other byte of the UTF-8 form becomes %XX.
QuotePlusByte(b) ==
    IF IsAlpha(b) \/ IsDigit(b) \/ b \in {95, 46, 45, 126} THEN <<b>>
    ELSE IF b = 32 THEN <<43>>
    ELSE <<37, UpperHexDigit(b \div 16), UpperHexDigit(b % 16)>>

RECURSIVE QuotePlusFrom(_, _)
QuotePlusFrom(bytes, i) ==
    IF i > Len(bytes) THEN <<>>
    ELSE QuotePlusByte(bytes[i]) \o QuotePlusFrom(bytes, i + 1)

quote_plus(str) == QuotePlusFrom(Utf8(str), 1)

\* urllib.parse.parse_qsl(query, keep_blank_values=True): the decoded
\* <<name, value>> pairs in the order of the query; empty fields skipped.
RECURSIVE PairsOf(_)
PairsOf(fields) ==
    IF fields = <<>> THEN <<>>
    ELSE LET field == Head(fields)
             eq == Find(<<61>>, field)
             name == IF eq = 0 THEN field ELSE Before(field, eq)
             value == IF eq = 0 THEN <<>> ELSE From(field, eq + 1)
         IN  (IF field = <<>> THEN <<>>
              ELSE <<(<<UnquotePlus(name), UnquotePlus(value)>>)>>)
             \o PairsOf(Tail(fields))

parse_qsl(query) ==
    IF query = <<>> THEN <<>> ELSE PairsOf(Split(query, 38))

\* The keys of the dict parse_qs builds, in insertion order.
RECURSIVE KeysOf(_, _)
KeysOf(pairs, seen) ==
    IF pairs = <<>> THEN <<>>
    ELSE IF Head(pairs)[1] \in seen THEN KeysOf(Tail(pairs), seen)
    ELSE <<Head(pairs)[1]>>
         \o KeysOf(Tail(pairs), seen \cup {Head(pairs)[1]})

\* The list parse_qs holds under a key.
RECURSIVE ValuesOf(_, _)
ValuesOf(pairs, key) ==
    IF pairs = <<>> THEN <<>>
    ELSE (IF Head(pairs)[1] = key THEN <<Head(pairs)[2]>> ELSE <<>>)
         \o ValuesOf(Tail(pairs), key)

\* urllib.parse.parse_qs(query, keep_blank_values=True) as the sequence of
\* <<key, values>> items of the dict.
parse_qs(query) ==
    LET pairs == parse_qsl(query)
        keys == KeysOf(pairs, {})
    IN  [k \in 1..Len(keys) |-> <<keys[k], ValuesOf(pairs, keys[k])>>]

\* One key of urlencode(query, doseq=True): key=value for each value.
RECURSIVE EncodeValues(_, _)
EncodeValues(key, values) ==
    IF values = <<>> THEN <<>>
    ELSE <<quote_plus(key) \o <<61>> \o quote_plus(Head(values))>>
         \o EncodeValues(key, Tail(values))

RECURSIVE EncodeItems(_)
EncodeItems(items) ==
    IF items = <<>> THEN <<>>
    ELSE EncodeValues(Head(items)[1], Head(items)[2])
         \o EncodeItems(Tail(items))

\* "&".join(fields)
RECURSIVE JoinAmp(_)
JoinAmp(fields) ==
    IF fields = <<>> THEN <<>>
    ELSE IF Len(fields) = 1 THEN Head(fields)
    ELSE Head(fields) \o <<38>> \o JoinAmp(Tail(fields))

\* urllib.parse.urlencode(query, doseq=True)
urlencode(items) == JoinAmp(EncodeItems(items))

\* The strings used as hosts, endpoints and target URLs, as code points.
UrlText(name) ==
    CASE name = "10.0.0.5" ->
         <<49, 48, 46, 48, 46, 48, 46, 53>>
      [] name = "http://10.0.0.5:9222/devtools/inspector.html?ws=10.0.0.5:9222/devtools/page/A" ->
         <<104, 116, 116, 112, 58, 47, 47, 49, 48, 46, 48, 46, 48, 46, 53,
         58, 57, 50, 50, 50, 47, 100, 101, 118, 116, 111, 111, 108, 115, 47,
         105, 110, 115, 112, 101, 99, 116, 111, 114, 46, 104, 116, 109, 108,
         63, 119, 115, 61, 49, 48, 46, 48, 46, 48, 46, 53, 58, 57, 50, 50,
         50, 47, 100, 101, 118, 116, 111, 111, 108, 115, 47, 112, 97, 103,
         101, 47, 65>>
      [] name = "/devtools/inspector.html?ws=10.0.0.5:9222/devtools/page/A" ->
         <<47, 100, 101, 118, 116, 111, 111, 108, 115, 47, 105, 110, 115,
         112, 101, 99, 116, 111, 114, 46, 104, 116, 109, 108, 63, 119, 115,
         61, 49, 48, 46, 48, 46, 48, 46, 53, 58, 57, 50, 50, 50, 47, 100,
         101, 118, 116, 111, 111, 108, 115, 47, 112, 97, 103, 101, 47, 65>>
      [] name = "/devtools/inspector.html?ws=127.0.0.1:9333/devtools/page/A" ->
         <<47, 100, 101, 118, 116, 111, 111, 108, 115, 47, 105, 110, 115,
         112, 101, 99, 116, 111, 114, 46, 104, 116, 109, 108, 63, 119, 115,
         61, 49, 50, 55, 46, 48, 46, 48, 46, 49, 58, 57, 51, 51, 51, 47, 100,
         101, 118, 116, 111, 111, 108, 115, 47, 112, 97, 103, 101, 47, 65>>
      [] name = "127.0.0.1" ->
         <<49, 50, 55, 46, 48, 46, 48, 46, 49>>
      [] name = "localhost" ->
         <<108, 111, 99, 97, 108, 104, 111, 115, 116>>
      [] name = "public.example.com" ->
         <<112, 117, 98, 108, 105, 99, 46, 101, 120, 97, 109, 112, 108, 101,
         46, 99, 111, 109>>
      [] name = "ws" ->
         <<119, 115>>
      [] name = "/json" ->
         <<47, 106, 115, 111, 110>>
      [] name = "/json/list" ->
         <<47, 106, 115, 111, 110, 47, 108, 105, 115, 116>>
      [] name = "/devtools/inspector.html?ws=127.0.0.1:9222/devtools/page/A" ->
         <<47, 100, 101, 118, 116, 111, 111, 108, 115, 47, 105, 110, 115,
         112, 101, 99, 116, 111, 114, 46, 104, 116, 109, 108, 63, 119, 115,
         61, 49, 50, 55, 46, 48, 46, 48, 46, 49, 58, 57, 50, 50, 50, 47, 100,
         101, 118, 116, 111, 111, 108, 115, 47, 112, 97, 103, 101, 47, 65>>
      [] name = "devtools/inspector.html?ws=127.0.0.1:9222/devtools/page/A" ->
         <<100, 101, 118, 116, 111, 111, 108, 115, 47, 105, 110, 115, 112,
         101, 99, 116, 111, 114, 46, 104, 116, 109, 108, 63, 119, 115, 61,
         49, 50, 55, 46, 48, 46, 48, 46, 49, 58, 57, 50, 50, 50, 47, 100,
         101, 118, 116, 111, 111, 108, 115, 47, 112, 97, 103, 101, 47, 65>>
      [] name = "/devtools/inspector.html?ws=ws://127.0.0.1:9222/devtools/page/A" ->
         <<47, 100, 101, 118, 116, 111, 111, 108, 115, 47, 105, 110, 115,
         112, 101, 99, 116, 111, 114, 46, 104, 116, 109, 108, 63, 119, 115,
         61, 119, 115, 58, 47, 47, 49, 50, 55, 46, 48, 46, 48, 46, 49, 58,
         57, 50, 50, 50, 47, 100, 101, 118, 116, 111, 111, 108, 115, 47, 112,
         97, 103, 101, 47, 65>>
      [] name = "devtools/inspector.html?ws=ws://127.0.0.1:9222/devtools/page/A" ->
         <<100, 101, 118, 116, 111, 111, 108, 115, 47, 105, 110, 115, 112,
         101, 99, 116, 111, 114, 46, 104, 116, 109, 108, 63, 119, 115, 61,
         119, 115, 58, 47, 47, 49, 50, 55, 46, 48, 46, 48, 46, 49, 58, 57,
         50, 50, 50, 47, 100, 101, 118, 116, 111, 111, 108, 115, 47, 112, 97,
         103, 101, 47, 65>>
      [] name = "http://127.0.0.1:9222/devtools/inspector.html?ws=127.0.0.1:9222/devtools/page/A" ->
         <<104, 116, 116, 112, 58, 47, 47, 49, 50, 55, 46, 48, 46, 48, 46,
         49, 58, 57, 50, 50, 50, 47, 100, 101, 118, 116, 111, 111, 108, 115,
         47, 105, 110, 115, 112, 101, 99, 116, 111, 114, 46, 104, 116, 109,
         108, 63, 119, 115, 61, 49, 50, 55, 46, 48, 46, 48, 46, 49, 58, 57,
         50, 50, 50, 47, 100, 101, 118, 116, 111, 111, 108, 115, 47, 112, 97,
         103, 101, 47, 65>>
      [] name = "http://127.0.0.1/devtools/inspector.html?experiments=true&ws=127.0.0.1:9222/devtools/page/A&v=a%2Fb+c#frag" ->
         <<104, 116, 116, 112, 58, 47, 47, 49, 50, 55, 46, 48, 46, 48, 46,
         49, 47, 100, 101, 118, 116, 111, 111, 108, 115, 47, 105, 110, 115,
         112, 101, 99, 116, 111, 114, 46, 104, 116, 109, 108, 63, 101, 120,
         112, 101, 114, 105, 109, 101, 110, 116, 115, 61, 116, 114, 117, 101,
         38, 119, 115, 61, 49, 50, 55, 46, 48, 46, 48, 46, 49, 58, 57, 50,
         50, 50, 47, 100, 101, 118, 116, 111, 111, 108, 115, 47, 112, 97,
         103, 101, 47, 65, 38, 118, 61, 97, 37, 50, 70, 98, 43, 99, 35, 102,
         114, 97, 103>>
      [] name = "https://chrome-devtools-frontend.appspot.com/serve_rev/@abc/inspector.html?ws=127.0.0.1:9222/devtools/page/A" ->
         <<104, 116, 116, 112, 115, 58, 47, 47, 99, 104, 114, 111, 109, 101,
         45, 100, 101, 118, 116, 111, 111, 108, 115, 45, 102, 114, 111, 110,
         116, 101, 110, 100, 46, 97, 112, 112, 115, 112, 111, 116, 46, 99,
         111, 109, 47, 115, 101, 114, 118, 101, 95, 114, 101, 118, 47, 64,
         97, 98, 99, 47, 105, 110, 115, 112, 101, 99, 116, 111, 114, 46, 104,
         116, 109, 108, 63, 119, 115, 61, 49, 50, 55, 46, 48, 46, 48, 46, 49,
         58, 57, 50, 50, 50, 47, 100, 101, 118, 116, 111, 111, 108, 115, 47,
         112, 97, 103, 101, 47, 65>>

\* ------------------------------------------------- live view URL rewriting
LoopbackHosts == {UrlText("127.0.0.1"), UrlText("localhost")}

\* f"{host}:{port}"
HostPort(host, port) == host \o <<58>> \o StrOfInt(port)

\* _rewrite_ws_value(value, host, port)
rewrite_ws_value(value, host, port) ==
    IF host \in LoopbackHosts THEN value
    ELSE IF StartsWith(value, WsPrefix) \/ StartsWith(value, WssPrefix)
    THEN LET parsed == urlparse(value)
             current_port == IF PortOf(parsed.netloc) # 0
                             THEN PortOf(parsed.netloc) ELSE port
         IN  urlunparse([parsed EXCEPT
                            !.netloc = HostPort(host, current_port)])
    ELSE IF Find(SchemeSep, value) = 0
    THEN IF Find(<<47>>, value) # 0
         THEN HostPort(host, port) \o <<47>>
              \o From(value, Find(<<47>>, value) + 1)
         ELSE HostPort(host, port)
    ELSE value

\* The URL _rewrite_devtools_url works on: a URL starting with "/" or
\* without "://" anywhere is put behind http://connect_host:port.
AbsoluteUrl(url, port, connect_host) ==
    LET base == HttpScheme \o SchemeSep \o HostPort(connect_host, port)
    IN  IF url[1] = 47 THEN base \o url
        ELSE IF Find(SchemeSep, url) = 0
        THEN base \o <<47>> \o LStripSlash(url)
        ELSE url

\* query["ws"] = [_rewrite_ws_value(ws_values[0], public_host, port)]
RewrittenQuery(items, public_host, port) ==
    [k \in 1..Len(items) |->
        IF items[k][1] = UrlText("ws")
        THEN <<items[k][1],
               <<rewrite_ws_value(items[k][2][1], public_host, port)>> >>
        ELSE items[k]]

\* _rewrite_devtools_url(url, public_host, port, connect_host)
rewrite_devtools_url(url, public_host, port, connect_host) ==
    IF url = <<>> THEN url
    ELSE LET absolute_url == AbsoluteUrl(url, port, connect_host)
             parsed == urlparse(absolute_url)
             query == parse_qs(parsed.query)
             new_query ==
                 urlencode(RewrittenQuery(query, public_host, port))
             netloc ==
                 IF parsed.netloc \in
                      {connect_host, HostPort(connect_host, port)}
                 THEN HostPort(public_host, port)
                 ELSE parsed.netloc
         IN  IF public_host \in LoopbackHosts THEN absolute_url
             ELSE urlunparse([parsed EXCEPT !.netloc = netloc,
                                            !.query = new_query])

\* --------------------------------------------------- resolve_live_view_url
\* A port _find_free_port may return, and the host names of the process:
\* connect_host and the values of LIVE_VIEW_HOST.
DebugPort == 9222

ConnectHost == UrlText("127.0.0.1")

PublicHosts == {UrlText("127.0.0.1"), UrlText("public.example.com")}

\* endpoints = (f"{base_url}/json/list", f"{base_url}/json"), without the
\* base URL.
Endpoints == <<UrlText("/json/list"), UrlText("/json")>>

CompatUrl ==
    UrlText("https://chrome-devtools-frontend.appspot.com/serve_rev/@abc/inspector.html?ws=127.0.0.1:9222/devtools/page/A")

PlainUrl ==
    UrlText("/devtools/inspector.html?ws=127.0.0.1:9222/devtools/page/A")

\* The entries of the JSON list the browser answers; <<>> is a key that is
\* missing or empty.
Targets ==
    [type : {"page", "iframe"},
     devtoolsFrontendUrlCompat : {<<>>, CompatUrl},
     devtoolsFrontendUrl : {<<>>, PlainUrl}]

TargetLists == UNION {[1..n -> Targets] : n \in 0..MaxTargets}

\* What one session.get(endpoint) plus response.json() can come to: a
\* status other than 200, an exception, or a list of targets.
Responses ==
    {[kind |-> "non200", targets |-> <<>>],
     [kind |-> "exception", targets |-> <<>>]}
    \cup {[kind |-> "targets", targets |-> l] : l \in TargetLists}

\* A target the loop over targets returns from.
Usable(target) ==
    /\ target.type = "page"
    /\ \/ target.devtoolsFrontendUrlCompat # <<>>
       \/ target.devtoolsFrontendUrl # <<>>

FirstUsable(targets) ==
    LET hits == {k \in 1..Len(targets) : Usable(targets[k])}
    IN  IF hits = {} THEN 0 ELSE Least(hits)

\* frontend_url if it is there, else compat_url.
UrlOf_PlainFirst(target) ==
    IF target.devtoolsFrontendUrl # <<>>
    THEN target.devtoolsFrontendUrl
    ELSE target.devtoolsFrontendUrlCompat

\* compat_url if it is there, else frontend_url.
UrlOf(target) ==
    IF target.devtoolsFrontendUrlCompat # <<>>
    THEN target.devtoolsFrontendUrlCompat
    ELSE target.devtoolsFrontendUrl

\* _rewrite_devtools_url as resolve_live_view_url calls it, tabulated over
\* the URLs a target can carry and the public hosts.
Rewritten ==
    [url \in {CompatUrl, PlainUrl}, public_host \in PublicHosts |->
        rewrite_devtools_url(url, public_host, DebugPort, ConnectHost)]

\* start_agent calls resolve_live_view_url(chrome_port, connect_host,
\* LIVE_VIEW_HOST); the session is opened and the first attempt begins.
ResolveStart ==
    /\ view.pc = "idle"
    /\ \E public_host \in PublicHosts :
        view' = [view EXCEPT !.pc = "query", !.public_host = public_host,
                             !.attempt = 1, !.endpoint = 1]
    /\ UNCHANGED <<runVars, hookVars>>

\* The query of one endpoint without the try / except around it.
ResolveQuery_NoExcept ==
    /\ view.pc = "query"
    /\ \E response \in Responses :
        LET queried == Append(view.queries,
                              <<view.attempt, Endpoints[view.endpoint]>>)
            hit == IF response.kind = "targets"
                   THEN FirstUsable(response.targets) ELSE 0
            seen == [view EXCEPT
                        !.queries = queried,
                        !.response = response,
                        !.last_error = @ \/ response.kind = "exception"]
        IN  view' =
              IF response.kind = "exception"
              THEN [seen EXCEPT !.pc = "raised"]
              ELSE IF hit # 0
              THEN [seen EXCEPT
                      !.pc = "resolved",
                      !.picked = hit,
                      !.resolved =
                          Available(Rewritten[UrlOf(response.targets[hit]),
                                              view.public_host])]
              ELSE IF view.endpoint = 1
              THEN [seen EXCEPT !.endpoint = 2]
              ELSE IF view.attempt < DiscoveryAttempts
              THEN [seen EXCEPT !.attempt = @ + 1, !.endpoint = 1]
              ELSE [seen EXCEPT !.pc = "resolved", !.resolved = Unavailable]
    /\ UNCHANGED <<runVars, hookVars>>

\* The query of one endpoint with the tuple of endpoints in the other order.
ResolveQuery_JsonFirst ==
    /\ view.pc = "query"
    /\ \E response \in Responses :
        LET queried == Append(view.queries,
                              <<view.attempt, Endpoints[3 - view.endpoint]>>)
            hit == IF response.kind = "targets"
                   THEN FirstUsable(response.targets) ELSE 0
            seen == [view EXCEPT
                        !.queries = queried,
                        !.response = response,
                        !.last_error = @ \/ response.kind = "exception"]
        IN  view' =
              IF hit # 0
              THEN [seen EXCEPT
                      !.pc = "resolved",
                      !.picked = hit,
                      !.resolved =
                          Available(Rewritten[UrlOf(response.targets[hit]),
                                              view.public_host])]
              ELSE IF view.endpoint = 1
              THEN [seen EXCEPT !.endpoint = 2]
              ELSE IF view.attempt < DiscoveryAttempts
              THEN [seen EXCEPT !.attempt = @ + 1, !.endpoint = 1]
              ELSE [seen EXCEPT !.pc = "resolved", !.resolved = Unavailable]
    /\ UNCHANGED <<runVars, hookVars>>

\* One pass of the inner loop: the GET of the current endpoint, the scan of
\* the targets and either the return or the move to the next endpoint, the
\* sleep and the next attempt, or the return of None after the last one.
ResolveQuery ==
    /\ view.pc = "query"
    /\ \E response \in Responses :
        LET queried == Append(view.queries,
                              <<view.attempt, Endpoints[view.endpoint]>>)
            hit == IF response.kind = "targets"
                   THEN FirstUsable(response.targets) ELSE 0
            seen == [view EXCEPT
                        !.queries = queried,
                        !.response = response,
                        !.last_error = @ \/ response.kind = "exception"]
        IN  view' =
              IF hit # 0
              THEN [seen EXCEPT
                      !.pc = "resolved",
                      !.picked = hit,
                      !.resolved =
                          Available(Rewritten[UrlOf(response.targets[hit]),
                                              view.public_host])]
              ELSE IF view.endpoint = 1
              THEN [seen EXCEPT !.endpoint = 2]
              ELSE IF view.attempt < DiscoveryAttempts
              THEN [seen EXCEPT !.attempt = @ + 1, !.endpoint = 1]
              ELSE [seen EXCEPT !.pc = "resolved", !.resolved = Unavailable]
    /\ UNCHANGED <<runVars, hookVars>>

\* The tail of start_agent that leaves live_view_url as discovery gave it.
StartAgentTail_NoFallback ==
    /\ view.pc = "resolved"
    /\ view' = [view EXCEPT
                  !.pc = "returned",
                  !.live_view_url = view.resolved,
                  !.scheduled = TRUE]
    /\ UNCHANGED <<runVars, hookVars>>

\* The tail of start_agent after resolve_live_view_url returned: the
\* fallback f"{public_cdp_url}/json", create_task and the return.
StartAgentTail ==
    /\ view.pc = "resolved"
    /\ view' = [view EXCEPT
                  !.pc = "returned",
                  !.live_view_url = IF view.resolved.kind = "str" /\ view.resolved.value # <<>>
                      THEN view.resolved
                      ELSE Available(HttpScheme \o SchemeSep
                               \o HostPort(view.public_host, DebugPort)
                               \o UrlText("/json")),
                  !.scheduled = TRUE]
    /\ UNCHANGED <<runVars, hookVars>>

\* Frontend URLs a target can carry, and the hosts LIVE_VIEW_HOST can name.
FrontendUrls ==
    {UrlText("/devtools/inspector.html?ws=127.0.0.1:9222/devtools/page/A"),
     UrlText("devtools/inspector.html?ws=127.0.0.1:9222/devtools/page/A"),
     UrlText("/devtools/inspector.html?ws=ws://127.0.0.1:9222/devtools/page/A"),
     UrlText("devtools/inspector.html?ws=ws://127.0.0.1:9222/devtools/page/A"),
     UrlText("http://127.0.0.1:9222/devtools/inspector.html?ws=127.0.0.1:9222/devtools/page/A"),
     UrlText("http://127.0.0.1/devtools/inspector.html?experiments=true&ws=127.0.0.1:9222/devtools/page/A&v=a%2Fb+c#frag"),
     UrlText("https://chrome-devtools-frontend.appspot.com/serve_rev/@abc/inspector.html?ws=127.0.0.1:9222/devtools/page/A"),
     UrlText("http://10.0.0.5:9222/devtools/inspector.html?ws=10.0.0.5:9222/devtools/page/A"),
     UrlText("/devtools/inspector.html?ws=10.0.0.5:9222/devtools/page/A"),
     UrlText("/devtools/inspector.html?ws=127.0.0.1:9333/devtools/page/A")}

RewriteHosts == PublicHosts \cup {UrlText("localhost")}

\* Values of CHROME_DEBUG_ADDRESS after _debug_connect_host, and ports.
ConnectHosts == {ConnectHost, UrlText("10.0.0.5")}

DebugPorts == {DebugPort, 9333}

\* One call of _rewrite_devtools_url.
RewriteUrl ==
    /\ check.op = "none"
    /\ \E url \in FrontendUrls, public_host \in RewriteHosts,
          port \in DebugPorts, connect_host \in ConnectHosts :
        check' = [op |-> "rewrite", url |-> url, public_host |-> public_host,
                  port |-> port, connect_host |-> connect_host,
                  result |-> rewrite_devtools_url(url, public_host, port,
                                                  connect_host)]
    /\ UNCHANGED <<runVars, posts, hook, view>>

UrlSpec == Init /\ [][RewriteUrl]_vars

ViewNext == ResolveStart \/ ResolveQuery \/ StartAgentTail

ViewSpec == Init /\ [][ViewNext]_vars

\* ------------------------------------------ the release steps on their own
\* What the release steps of the finally block can be handed: the process
\* (None, running, or exited by itself), the profile directory (None, there,
\* gone), the resume file and the local variable file_path.
Handles ==
    [process : {"None", "running", "exited"},
     dir : {"None", "exists", "removed"},
     file : {"exists", "removed"},
     file_path : {"None", "local_path"}]

ReleaseStart ==
    /\ check.op = "none"
    /\ \E h \in Handles :
        check' = [op |-> "release", passes |-> 0, process |-> h.process,
                  dir |-> h.dir, file |-> h.file, file_path |-> h.file_path,
                  signalled |-> FALSE, deleted |-> {}, raised |-> FALSE]
    /\ UNCHANGED <<runVars, posts, hook, view>>

\* The release steps without the except clause of their try.
ReleasePass_NoExcept ==
    /\ check.op = "release"
    /\ check.passes < MaxPasses
    /\ \E timeout \in BOOLEAN :
        LET exited == check.process \in {"exited", "terminated", "killed"}
            lookupError == check.process # "None" /\ exited
            process == IF check.process = "None" \/ exited THEN check.process
                       ELSE IF timeout THEN "killed" ELSE "terminated"
            rmtree == ~lookupError /\ check.dir = "exists"
            remove == check.file_path # "None" /\ check.file = "exists"
        IN  check' = [check EXCEPT
                        !.passes = @ + 1,
                        !.process = process,
                        !.dir = IF rmtree THEN "removed" ELSE @,
                        !.file = IF remove THEN "removed" ELSE @,
                        !.signalled = process # check.process,
                        !.deleted = (IF rmtree THEN {"dir"} ELSE {})
                                    \cup (IF remove THEN {"file"} ELSE {}),
                        !.raised = lookupError]
    /\ UNCHANGED <<runVars, posts, hook, view>>

\* One pass over the release steps: terminate (which raises
\* ProcessLookupError for a process that has exited), wait_for with kill on
\* timeout, rmtree of a directory that exists, all inside one try whose
\* except clause prints; then cleanup_resume, which removes the file if it
\* exists.
ReleasePass ==
    /\ check.op = "release"
    /\ check.passes < MaxPasses
    /\ \E timeout \in BOOLEAN :
        LET exited == check.process \in {"exited", "terminated", "killed"}
            lookupError == check.process # "None" /\ exited
            process == IF check.process = "None" \/ exited THEN check.process
                       ELSE IF timeout THEN "killed" ELSE "terminated"
            rmtree == ~lookupError /\ check.dir = "exists"
            remove == check.file_path # "None" /\ check.file = "exists"
        IN  check' = [check EXCEPT
                        !.passes = @ + 1,
                        !.process = process,
                        !.dir = IF rmtree THEN "removed" ELSE @,
                        !.file = IF remove THEN "removed" ELSE @,
                        !.signalled = process # check.process,
                        !.deleted = (IF rmtree THEN {"dir"} ELSE {})
                                    \cup (IF remove THEN {"file"} ELSE {}),
                        !.raised = FALSE]
    /\ UNCHANGED <<runVars, posts, hook, view>>

ReleaseNext == ReleaseStart \/ ReleasePass

ReleaseSpec == Init /\ [][ReleaseNext]_vars

\* ------------------------------------- the bridge at the grain of its awaits
\* connect_playwright_to_cdp returned False: its except clause has emptied
\* both globals, and the task raises into its finally block.
ConnectFailed(r) ==
    /\ playwright_browser' = NoRun
    /\ playwright_page' = NoRun
    /\ exc' = [exc EXCEPT ![r] = "playwright_connect"]
    /\ EnterFinally(r, NoRun)

\* connect_playwright_to_cdp returned True: BrowserSession, ChatBrowserUse
\* and Agent are constructed, which may raise, and agent.run() is awaited.
Connected(r) ==
    \E constructed \in BOOLEAN :
        IF constructed
        THEN /\ bg' = [bg EXCEPT ![r] = "agent"]
             /\ UNCHANGED <<exc, cleanupEntered, cleanupSteps, chrome_process>>
        ELSE /\ exc' = [exc EXCEPT ![r] = "agent_construct"]
             /\ EnterFinally(r, r)

\* async_playwright().start() and connect_over_cdp(cdp_url) are over:
\* "playwright_browser = browser", then the first page of the first context
\* if there is one, else the call of browser.new_context().
ConnectOverCdp(r) ==
    /\ LoopFree(r)
    /\ bg[r] = "connect"
    /\ \E outcome \in {"raised", "has_page", "no_page"} :
        CASE outcome = "raised" -> ConnectFailed(r)
          [] outcome = "has_page" ->
                /\ playwright_browser' = r
                /\ playwright_page' = r
                /\ Connected(r)
          [] outcome = "no_page" ->
                /\ playwright_browser' = r
                /\ bg' = [bg EXCEPT ![r] = "new_context"]
                /\ UNCHANGED <<playwright_page, exc, cleanupEntered,
                               cleanupSteps, chrome_process>>
    /\ UNCHANGED <<handle, req, fg, fgErr, session_id, live_view_url, portBound,
                   user_data_dir, probes, taskEnd, file_path, resumeFile,
                   agentResult>>
    /\ UNCHANGED <<hookVars, view>>

\* "context = await browser.new_context()" is over; context.new_page() is
\* called.
NewContext(r) ==
    /\ LoopFree(r)
    /\ bg[r] = "new_context"
    /\ \E raised \in BOOLEAN :
        IF raised THEN ConnectFailed(r)
        ELSE /\ bg' = [bg EXCEPT ![r] = "new_page"]
             /\ UNCHANGED <<playwright_browser, playwright_page, exc,
                            cleanupEntered, cleanupSteps, chrome_process>>
    /\ UNCHANGED <<handle, req, fg, fgErr, session_id, live_view_url, portBound,
                   user_data_dir, probes, taskEnd, file_path, resumeFile,
                   agentResult>>
    /\ UNCHANGED <<hookVars, view>>

\* "playwright_page = await context.new_page()" is over.
NewPage(r) ==
    /\ LoopFree(r)
    /\ bg[r] = "new_page"
    /\ \E raised \in BOOLEAN :
        IF raised THEN ConnectFailed(r)
        ELSE /\ playwright_page' = r
             /\ UNCHANGED playwright_browser
             /\ Connected(r)
    /\ UNCHANGED <<handle, req, fg, fgErr, session_id, live_view_url, portBound,
                   user_data_dir, probes, taskEnd, file_path, resumeFile,
                   agentResult>>
    /\ UNCHANGED <<hookVars, view>>

\* What an action hands back to the agent: ActionResult(error=...) or
\* ActionResult(extracted_content=...), the page it worked on (NoRun: none)
\* and whether an exception left the action instead.
ActionResult(kind, text, page) ==
    [result |-> kind, text |-> text, touched |-> page, raised |-> FALSE]

\* playwright_file_upload with its outer except clause missing.  course is
\* how the upload goes once the page and the file are there: an exception
\* that no inner try catches, no file input found, every way of setting the
\* file failing, or the file set in one of the three ways; verification is
\* what the look at the input's files gives afterwards.
playwright_file_upload_NoOuterExcept(page, file_exists, course, verification) ==
    IF page = NoRun
    THEN ActionResult("error", "Playwright not connected", NoRun)
    ELSE IF ~file_exists
    THEN ActionResult("error", "File not found", NoRun)
    ELSE IF course = "no_input"
    THEN ActionResult("error", "No file input element found", page)
    ELSE IF course \in {"exception", "all_failed"}
    THEN [result |-> "none", text |-> "", touched |-> page, raised |-> TRUE]
    ELSE IF verification = "no_files"
    THEN ActionResult("error", "File upload may have failed", page)
    ELSE IF verification = "files"
    THEN ActionResult("extracted_content", "File(s) uploaded", page)
    ELSE ActionResult("extracted_content", "File upload command executed",
                      page)

\* playwright_file_upload(params, browser_session), page being the value of
\* the global playwright_page.
playwright_file_upload(page, file_exists, course, verification) ==
    IF page = NoRun
    THEN ActionResult("error", "Playwright not connected", NoRun)
    ELSE IF ~file_exists
    THEN ActionResult("error", "File not found", NoRun)
    ELSE IF course = "no_input"
    THEN ActionResult("error", "No file input element found", page)
    ELSE IF course \in {"exception", "all_failed"}
    THEN ActionResult("error", "Playwright file upload failed", page)
    ELSE IF verification = "no_files"
    THEN ActionResult("error", "File upload may have failed", page)
    ELSE IF verification = "files"
    THEN ActionResult("extracted_content", "File(s) uploaded", page)
    ELSE ActionResult("extracted_content", "File upload command executed",
                      page)

\* detect_malicious_content(text, browser_session): the banner is put on the
\* global playwright_page if there is one; a failure of that is printed.
detect_malicious_content(page) ==
    ActionResult("extracted_content", "Malicious content detected", page)

\* The agent of run r invokes one of the custom actions; the action reads
\* the module global playwright_page.
CustomAction(r) ==
    /\ LoopFree(r)
    /\ bg[r] = "agent"
    /\ \E name \in {"upload", "banner"}, file_exists \in BOOLEAN,
          course \in {"exception", "no_input", "all_failed", "direct",
                      "filechooser", "script"},
          verification \in {"files", "no_files", "exception"} :
        LET out == IF name = "upload"
                   THEN playwright_file_upload(playwright_page, file_exists,
                                               course, verification)
                   ELSE detect_malicious_content(playwright_page)
        IN  check' = [op |-> "action", run |-> r, name |-> name,
                      page |-> playwright_page,
                      file_exists |-> name = "upload" /\ file_exists,
                      course |-> IF name = "upload" THEN course ELSE "none",
                      out |-> out]
    /\ UNCHANGED <<runVars, posts, hook, view>>

\* Two runs whose tasks have downloaded their resumes and are about to
\* connect the bridge.
BridgeInit ==
    /\ req = [r \in ConcRuns |->
                [user_id |-> "u1", url |-> "https://example.com/apply",
                 profile |-> "profile", resume_url |-> "https://files/r.pdf",
                 webhook_url |-> ""]]
    /\ fg = [r \in ConcRuns |-> "returned"]
    /\ fgErr = [r \in ConcRuns |-> "none"]
    /\ session_id = [r \in ConcRuns |-> <<r>>]
    /\ live_view_url = [r \in ConcRuns |-> "devtools_frontend_url"]
    /\ portBound = [r \in ConcRuns |-> TRUE]
    /\ user_data_dir = [r \in ConcRuns |-> "exists"]
    /\ chrome_process = [r \in ConcRuns |-> "running"]
    /\ probes = [r \in ConcRuns |-> 0]
    /\ bg = [r \in ConcRuns |-> "connect"]
    /\ exc = [r \in ConcRuns |-> "none"]
    /\ taskEnd = [r \in ConcRuns |-> "none"]
    /\ file_path = [r \in ConcRuns |-> "local_path"]
    /\ resumeFile = [r \in ConcRuns |-> "exists"]
    /\ agentResult = [r \in ConcRuns |-> "none"]
    /\ cleanupEntered = [r \in ConcRuns |-> 0]
    /\ cleanupSteps = [r \in ConcRuns |-> {}]
    /\ playwright_browser = NoRun
    /\ playwright_page = NoRun
    /\ handle = [r \in ConcRuns |-> [process |-> r, dir |-> r, resume |-> r]]
    /\ HookInit

BridgeNext ==
    \E r \in ConcRuns :
        \/ ConnectOverCdp(r)
        \/ NewContext(r)
        \/ NewPage(r)
        \/ CustomAction(r)
        \/ BgAgentRun(r)
        \/ CloseBridge(r)
        \/ WaitProcess(r)

BridgeSpec == BridgeInit /\ [][BridgeNext]_vars

\* ------------------------------------------------- choice of the browser
\* start_chrome_with_debug_port: the candidate executables, in order.
chrome_paths ==
    <<"/Applications/Google Chrome.app/Contents/MacOS/Google Chrome",
      "/usr/bin/google-chrome", "/usr/bin/chromium-browser", "chrome",
      "chromium">>

\* The test of the loop with the two PATH names left out.
MayProbe_ExistsOnly(path, exists) == exists[path]

\* "if os.path.exists(path) or path in ["chrome", "chromium"]".
MayProbe(path, exists) == exists[path] \/ path \in {"chrome", "chromium"}

\* The loop over chrome_paths from index i on.  exists[path] is
\* os.path.exists(path); spawns[path] tells whether
\* create_subprocess_exec(path, "--version") starts a process or raises.
\* tried lists the candidates whose --version was attempted so far.
RECURSIVE ProbeFrom(_, _, _, _)
ProbeFrom(i, exists, spawns, tried) ==
    IF i > Len(chrome_paths) THEN [chrome_exe |-> "", tried |-> tried]
    ELSE IF ~MayProbe(chrome_paths[i], exists)
    THEN ProbeFrom(i + 1, exists, spawns, tried)
    ELSE IF spawns[chrome_paths[i]]
    THEN [chrome_exe |-> chrome_paths[i],
          tried |-> Append(tried, chrome_paths[i])]
    ELSE ProbeFrom(i + 1, exists, spawns, Append(tried, chrome_paths[i]))

\* The choice of the executable and what follows it: RuntimeError when
\* chrome_exe is None, else the launch of cmd, whose first word is
\* chrome_exe.
SelectChrome ==
    /\ check.op = "none"
    /\ \E exists, spawns \in
            [{chrome_paths[i] : i \in DOMAIN chrome_paths} -> BOOLEAN] :
        LET probe == ProbeFrom(1, exists, spawns, <<>>)
        IN check' = [op |-> "select_chrome", exists |-> exists,
                     spawns |-> spawns, tried |-> probe.tried,
                     error |-> IF probe.chrome_exe = ""
                               THEN "Chrome not found" ELSE "none",
                     launched |-> probe.chrome_exe]
    /\ UNCHANGED <<posts, hook>>
    /\ UNCHANGED <<runVars, view>>

ChromeSpec == Init /\ [][SelectChrome]_vars

\* ------------------------------------------------------- origin check
\* OriginCheckMiddleware.__init__: the origins that are let in.
allowed_origins ==
    <<Text("https://cloud.stapply.ai"), Text("http://cloud.stapply.ai")>>

\* str.lower().
LowerStr(str) == [i \in DOMAIN str |-> Lower(str[i])]

\* The value of os.getenv for a variable that is not set.
Unset == <<0>>

\* os.getenv("ENVIRONMENT", "development").lower().
EnvOf(raw) == IF raw = Unset THEN LowerStr(Text("development")) ELSE LowerStr(raw)

\* The two loops over allowed_origins.
MatchesAllowed(value) ==
    \E i \in DOMAIN allowed_origins : StartsWith(value, allowed_origins[i])

\* OriginCheckMiddleware.dispatch: the request is handed to call_next, or
\* HTTPException(403) is raised.  checked tells whether the header test was
\* reached.
dispatch(env, path, origin, referer) ==
    IF env # Text("production")
    THEN [outcome |-> "call_next", checked |-> FALSE]
    ELSE IF path \in {"/", "/health", "/docs"}
    THEN [outcome |-> "call_next", checked |-> FALSE]
    ELSE IF origin = <<>> /\ referer = <<>>
    THEN [outcome |-> "call_next", checked |-> FALSE]
    ELSE IF (origin # <<>> /\ MatchesAllowed(origin))
            \/ (referer # <<>> /\ MatchesAllowed(referer))
    THEN [outcome |-> "call_next", checked |-> TRUE]
    ELSE [outcome |-> "403", checked |-> TRUE]

\* One request through the middleware of a process started with ENVIRONMENT
\* set to raw; a header that is absent or empty is <<>>.
Dispatch ==
    /\ check.op = "none"
    /\ \E raw \in {Unset, <<>>, Text("production"), Text("Production"),
                    Text("staging")},
          path \in {"/", "/health", "/docs", "/apply", "/sessions"},
          headers \in [{"origin", "referer"} ->
                         {<<>>, Text("https://cloud.stapply.ai"),
                          Text("http://cloud.stapply.ai/apply"),
                          Text("https://cloud.stapply.ai.evil.example"),
                          Text("https://evil.example")}] :
        check' = [op |-> "dispatch", raw |-> raw, env |-> EnvOf(raw),
                  path |-> path, origin |-> headers["origin"],
                  referer |-> headers["referer"],
                  out |-> dispatch(EnvOf(raw), path, headers["origin"],
                                   headers["referer"])]
    /\ UNCHANGED <<posts, hook>>
    /\ UNCHANGED <<runVars, view>>

OriginSpec == Init /\ [][Dispatch]_vars

\* ------------------------------------------------------------------ claims
RunEnded(r) == bg[r] = "done"

RunSucceeded(r) == taskEnd[r] = "returned" /\ agentResult[r] = "successful"

\* C1: every run that reached a terminal state and was started with a webhook
\* URL has made exactly one POST to that URL, carrying the run's user_id and
\* a success flag that is true exactly when the run succeeded.
C1_OneWebhookPerRun ==
    \A r \in Runs :
        (RunEnded(r) /\ req[r].webhook_url # "") =>
            /\ Cardinality({i \in DOMAIN posts :
                              posts[i].url = req[r].webhook_url}) = 1
            /\ \E i \in DOMAIN posts :
                /\ posts[i].url = req[r].webhook_url
                /\ posts[i].user_id = req[r].user_id
                /\ posts[i].success = RunSucceeded(r)

\* C2: the background task never ends with an unhandled exception, whatever
\* step of the run raised.
C2_TaskNeverEndsWithException ==
    \A r \in Runs : taskEnd[r] # "exception"

\* C3: for every run whose background task was started, the cleanup pass is
\* entered at most once, and it is eventually entered, on the normal path and
\* on every exception path.
C3_CleanupEnteredOnce ==
    \A r \in Runs :
        /\ [](cleanupEntered[r] <= 1)
        /\ (bg[r] # "none") ~> (cleanupEntered[r] = 1)

C3_Witness ==
    \E r \in Runs :
        /\ bg[r] = "done"
        /\ exc[r] = "playwright_connect"
        /\ cleanupEntered[r] = 1

\* C4: when a run's cleanup pass is over, every cleanup step has been
\* executed, whichever of the steps failed: the process was terminated, the
\* profile directory removed, and the downloaded resume file deleted.
C4_EveryCleanupStepRuns ==
    \A r \in Runs :
        RunEnded(r) =>
            /\ {"terminate", "rmtree"} \subseteq cleanupSteps[r]
            /\ (file_path[r] # "None" => "cleanup_resume" \in cleanupSteps[r])

\* C5: start_agent has returned a non-empty session id before any step of
\* the background run is executed; the return never waits for the agent.
C5_ReturnsBeforeAgentCompletes ==
    \A r \in Runs :
        /\ fg[r] = "returned" => session_id[r] # <<>>
        /\ bg[r] # "none" => fg[r] = "returned"
        /\ agentResult[r] # "none" => fg[r] = "returned"

C5_Witness ==
    \E r \in Runs :
        /\ fg[r] = "returned"
        /\ session_id[r] # <<>>
        /\ bg[r] = "agent"
        /\ agentResult[r] = "none"

\* A request that lacks the user id, the URL or the resume location.
MissingMandatory(q) == q.user_id = "" \/ q.url = "" \/ q.resume_url = ""

\* C6: a call of start_agent with an empty user id, URL or resume location
\* raises at once and changes nothing: no port is bound, no profile directory
\* created, no process spawned, no task scheduled, and the shared bridge
\* references are left as they were.
C6_InvalidRequestNoSideEffects ==
    [][\A r \in Runs :
         (fg[r] = "idle" /\ fg'[r] # "idle" /\ MissingMandatory(req'[r])) =>
             /\ fg'[r] = "raised"
             /\ fgErr'[r] # "none"
             /\ UNCHANGED <<session_id, live_view_url, portBound,
                            user_data_dir, chrome_process, probes, bg, exc,
                            taskEnd, file_path, resumeFile, agentResult,
                            cleanupEntered, cleanupSteps, playwright_browser,
                            playwright_page, handle, posts>>]_vars

C6_Witness ==
    \E r \in Runs :
        /\ req[r].user_id # "" /\ req[r].url # "" /\ req[r].resume_url = ""
        /\ fg[r] = "raised"
        /\ ~portBound[r]
        /\ user_data_dir[r] = "none"

ProvisioningFailed(r) ==
    fgErr[r] \in {"Chrome not found", "Chrome failed to start with CDP"}

\* C7: when provisioning fails, no background task is scheduled and
\* everything provisioning had acquired is released: no process is left
\* running and the profile directory no longer exists.
C7_ProvisioningFailureReleasesAll ==
    \A r \in Runs :
        ProvisioningFailed(r) =>
            /\ bg[r] = "none"
            /\ chrome_process[r] # "running"
            /\ user_data_dir[r] # "exists"

C9_SendWebhookNeverRaises ==
    /\ hook.pc # "raised"
    /\ Len(posts) <= 1

\* C10 as stated: the signature of payload under secret verifies against
\* payload2 and secret2 exactly when payload2 is payload and secret2 is
\* secret.
C10_VerifiesOnlySamePayloadAndSecret ==
    check.op = "sign_verify" =>
        (check.result = (check.payload2 = check.payload
                         /\ check.secret2 = check.secret))

\* A str without its trailing NUL characters.
RECURSIVE StripNuls(_)
StripNuls(str) ==
    IF str # <<>> /\ str[Len(str)] = 0
    THEN StripNuls(SubSeq(str, 1, Len(str) - 1))
    ELSE str

\* C10, amended: the signature of payload under a non-empty secret verifies
\* against payload2 and secret2 exactly when payload2 is payload and secret2
\* is a non-empty secret that equals secret up to trailing NUL characters
\* (HMAC pads its key with zero bytes); in particular it verifies against
\* the same payload and secret, and against no payload that differs.
C10_RoundTrip ==
    check.op = "sign_verify" =>
        /\ check.raised = "none"
        /\ check.result = (/\ check.payload2 = check.payload
                           /\ check.secret2 # <<>>
                           /\ StripNuls(check.secret2) = StripNuls(check.secret))

C10_Witness ==
    /\ check.op = "sign_verify"
    /\ check.payload2 = check.payload
    /\ check.secret2 = check.secret
    /\ Len(check.payload) = MaxLen
    /\ check.result

\* C11: a request that send_webhook emitted with a secret configured carries
\* as body the sorted-keys serialisation of the payload, which is the text
\* that was signed, and as timestamp header the payload's timestamp; the
\* receiver's verify_webhook_request accepts it with the same secret when it
\* is checked within the tolerance window.
C11_EmittedRequestAccepted ==
    (check.op = "receive" /\ hook.signed
       /\ check.now - hook.timestamp <= DefaultTolerance) =>
        /\ check.accepted
        /\ posts[1].data =
             JsonDumps(WebhookPayload(hook.user_id, hook.success,
                                      hook.timestamp), TRUE)
        /\ posts[1].headers.signature =
             SchemeTag \o HmacHexDigest(Utf8(hook.secret), Utf8(posts[1].data))
        /\ IsIntLiteral(posts[1].headers.timestamp.value)
        /\ IntOf(posts[1].headers.timestamp.value) = hook.timestamp

C11_Witness ==
    /\ check.op = "receive"
    /\ hook.signed
    /\ check.now - hook.timestamp = DefaultTolerance
    /\ check.accepted

\* C12: verification rejects every request whose timestamp is absent (None
\* or empty) or malformed, even when the signature is correct.
C12_RejectsAbsentOrMalformedTimestamp ==
    (check.op = "verify" /\ check.kind \in {"None", "empty", "malformed"}) =>
        ~check.result

\* C13: verification rejects every request whose timestamp is more than the
\* tolerance of 300 seconds old, even with a correct signature, and accepts
\* a correctly signed request whose timestamp is exactly 300 seconds old.
C13_RejectsOlderThanTolerance ==
    (check.op = "verify" /\ check.kind = "int") =>
        /\ check.age > DefaultTolerance => ~check.result
        /\ (check.age = DefaultTolerance /\ check.form = "correct"
              /\ check.secret # <<>>) => check.result

C13_Witness ==
    /\ check.op = "verify"
    /\ check.kind = "int"
    /\ check.form = "correct"
    /\ check.secret # <<>>
    /\ check.age = DefaultTolerance + 1
    /\ ~check.result

\* C14: verification rejects every request whose signature is missing or
\* empty or does not start with the scheme tag sha256=, whatever the
\* payload, the secret and the timestamp.
C14_RejectsMissingOrUntaggedSignature ==
    (check.op = "verify" /\ check.form \in {"absent", "no_tag", "wrong_tag"}) =>
        ~check.result

C14_Witness ==
    /\ check.op = "verify"
    /\ check.form = "no_tag"
    /\ check.secret # <<>>
    /\ check.kind = "int"
    /\ check.age = 0
    /\ ~check.result

\* The characters 0-9 and a-f.
IsHex(str) == \A i \in 1..Len(str) : str[i] \in (48..57) \cup (97..102)

\* C15: a call of send_webhook with a URL makes its POST whether or not a
\* secret is configured; without a secret the request carries neither the
\* signature nor the timestamp header, with a secret it carries both, the
\* signature being sha256= followed by a hex digest.
C15_UnsignedStillDelivered ==
    (hook.pc # "idle" /\ hook.webhook_url \notin {"", "None"}) =>
        /\ Len(posts) = 1
        /\ posts[1].url = hook.webhook_url
        /\ hook.secret = <<>> =>
             /\ posts[1].headers.signature = <<>>
             /\ posts[1].headers.timestamp = NoTimestamp
        /\ hook.secret # <<>> =>
             /\ StartsWith(posts[1].headers.signature, SchemeTag)
             /\ Len(posts[1].headers.signature) > Len(SchemeTag)
             /\ IsHex(SubSeq(posts[1].headers.signature, Len(SchemeTag) + 1,
                             Len(posts[1].headers.signature)))
             /\ posts[1].headers.timestamp.kind = "str"
             /\ posts[1].headers.timestamp.value # <<>>

C15_Witness ==
    /\ hook.pc = "returned"
    /\ hook.webhook_url \notin {"", "None"}
    /\ hook.secret = <<>>
    /\ Len(posts) = 1
    /\ posts[1].headers.signature = <<>>

\* str occurs in text as a contiguous part.
OccursIn(str, text) ==
    \E k \in 0..(Len(text) - Len(str)) :
        SubSeq(text, k + 1, k + Len(str)) = str

\* C16: the body of every webhook request has a session_id member (the
\* session id start_agent returned for the run).
C16_PayloadCarriesSessionId ==
    \A i \in DOMAIN posts : OccursIn(<<34, 115, 101, 115, 115, 105, 111, 110, 95, 105, 100, 34>>, posts[i].data)

\* C17: after a run's cleanup pass no resume file downloaded for the run is
\* left on disk, whichever way the run ended.
C17_NoResumeFileLeft ==
    \A r \in Runs : RunEnded(r) => resumeFile[r] # "exists"

\* C18: when no run is active (each has not started its task or has finished
\* its cleanup pass), both shared bridge references are empty.
C18_BridgeEmptyAfterCleanup ==
    (\A r \in Runs : bg[r] \in {"none", "done"}) =>
        (playwright_browser = NoRun /\ playwright_page = NoRun)

C20_HandleOwnedBySessionOnly ==
    /\ [](\A r \in ConcRuns : \A o \in ConcRuns \ {r} :
            /\ handle[r].process # 0 => handle[r].process # handle[o].process
            /\ handle[r].dir # 0 => handle[r].dir # handle[o].dir
            /\ handle[r].resume # 0 => handle[r].resume # handle[o].resume)
    /\ [][\A o \in ConcRuns :
            (fg'[o] = fg[o] /\ bg'[o] = bg[o]) =>
                /\ chrome_process'[o] = chrome_process[o]
                /\ user_data_dir'[o] = user_data_dir[o]
                /\ resumeFile'[o] = resumeFile[o]
                /\ handle'[o] = handle[o]]_vars

C20_Witness ==
    \E r \in ConcRuns : \E o \in ConcRuns \ {r} :
        /\ RunEnded(r)
        /\ chrome_process[r] \in {"terminated", "killed"}
        /\ user_data_dir[r] = "removed"
        /\ resumeFile[r] = "removed"
        /\ bg[o] = "agent"
        /\ chrome_process[o] = "running"
        /\ user_data_dir[o] = "exists"
        /\ resumeFile[o] = "exists"

\* Positions of the background task inside its try body / inside finally.
TryBody == {"scheduled", "downloading", "connect", "agent"}
FinallyBlock == {"closing", "wait_process", "done"}

\* C21: within a run the stages are strictly ordered.  The background task
\* exists only once provisioning and the live view lookup are over and
\* start_agent has returned; a step of the try body (download, connect,
\* agent) is never taken once the finally block was entered; no cleanup
\* step and no webhook POST happens while the try body is still running.
C21_StagesStrictlyOrdered ==
    /\ [](\A r \in Runs :
            /\ bg[r] # "none" =>
                 /\ fg[r] = "returned"
                 /\ live_view_url[r] # ""
                 /\ probes[r] = 0
            /\ bg[r] \in TryBody =>
                 /\ cleanupEntered[r] = 0
                 /\ cleanupSteps[r] = {}
                 /\ posts = <<>>
            /\ cleanupEntered[r] > 0 => bg[r] \in FinallyBlock)
    /\ [][\A r \in Runs :
            bg[r] \in FinallyBlock =>
                /\ bg'[r] \in FinallyBlock
                /\ file_path'[r] = file_path[r]
                /\ agentResult'[r] = agentResult[r]
                /\ exc'[r] = exc[r]]_vars

C21_Witness ==
    \E r \in Runs :
        /\ RunEnded(r)
        /\ agentResult[r] = "successful"
        /\ {"close", "terminate", "rmtree", "cleanup_resume"}
             \subseteq cleanupSteps[r]

\* resolve_live_view_url has returned (start_agent may have gone on).
Resolved == view.pc \in {"resolved", "returned"}

\* C22: live view discovery never raises.  Whatever the queries answer
\* (status other than 200, exception, lists without a usable page target),
\* it returns None, and only once the last attempt has queried both
\* endpoints; start_agent then still creates the background task.
C22_DiscoveryNeverRaises ==
    /\ view.pc # "raised"
    /\ (Resolved /\ view.picked = 0) =>
           /\ view.resolved = Unavailable
           /\ Len(view.queries) = 2 * DiscoveryAttempts
    /\ view.pc = "returned" => view.scheduled

C22_Witness ==
    /\ view.pc = "returned"
    /\ view.resolved = Unavailable
    /\ view.last_error
    /\ view.scheduled

\* The value of the ws parameter names host:port, with or without a ws://
\* or wss:// in front and a path behind.
WsPointsAt(value, host, port) ==
    LET bare == IF StartsWith(value, WsPrefix)
                THEN From(value, Len(WsPrefix) + 1)
                ELSE IF StartsWith(value, WssPrefix)
                THEN From(value, Len(WssPrefix) + 1)
                ELSE value
        target == HostPort(host, port)
    IN  /\ StartsWith(bare, target)
        /\ Len(bare) > Len(target) => bare[Len(target) + 1] = 47

\* The decoded parameters of a query other than ws, in their order.
OtherParams(query) ==
    SelectSeq(parse_qsl(query), LAMBDA pair : pair[1] # UrlText("ws"))

\* The decoded values of the ws parameter of a query.
WsParams(query) == ValuesOf(parse_qsl(query), UrlText("ws"))

\* The URL is relative (neither scheme nor network location).
IsRelative(url) ==
    urlparse(url).scheme = <<>> /\ urlparse(url).netloc = <<>>

\* C23: a frontend URL that is relative or located at the connect host, and
\* whose ws parameter points at the connect host and port, is rewritten for
\* a public host that is no loopback name to network location
\* public_host:port, with the ws parameter pointing at public_host:port and
\* the path and the other parameters as they were; for a loopback public
\* host the URL comes back without any rewriting (a relative one at most
\* put behind http://connect_host:port).
C23_RewritesToPublicHost ==
    check.op = "rewrite" =>
        LET given == urlparse(check.url)
            result == urlparse(check.result)
            located == \/ IsRelative(check.url)
                       \/ given.netloc \in
                            {check.connect_host,
                             HostPort(check.connect_host, check.port)}
            pointed == /\ WsParams(given.query) # <<>>
                       /\ \A k \in 1..Len(WsParams(given.query)) :
                            WsPointsAt(WsParams(given.query)[k],
                                       check.connect_host, check.port)
        IN  IF check.public_host \in LoopbackHosts
            THEN check.result \in
                   {check.url,
                    HttpScheme \o SchemeSep
                      \o HostPort(check.connect_host, check.port)
                      \o <<47>> \o LStripSlash(check.url)}
            ELSE (located /\ pointed) =>
                   /\ result.netloc = HostPort(check.public_host, check.port)
                   /\ WsParams(result.query) # <<>>
                   /\ \A k \in 1..Len(WsParams(result.query)) :
                        WsPointsAt(WsParams(result.query)[k],
                                   check.public_host, check.port)
                   /\ LStripSlash(result.path) = LStripSlash(given.path)
                   /\ OtherParams(result.query) = OtherParams(given.query)
                   /\ result.fragment = given.fragment

\* C24: a request whose user id, URL or resume location is empty is answered
\* with a client error (4xx), not with a server error.
C24_ValidationFailureIsClientError ==
    \A r \in Runs :
        (/\ fg[r] = "raised"
         /\ \/ req[r].user_id = ""
            \/ req[r].url = ""
            \/ req[r].resume_url = "")
        => apply_status_code(r) \in 400..499

\* C25: the release steps run a second time on the same handle do not
\* raise, signal no process and delete nothing: the second pass is a no-op.
\* No pass raises.
C25_SecondReleaseIsNoOp ==
    check.op = "release" =>
        /\ ~check.raised
        /\ check.passes >= 2 =>
             /\ check.deleted = {}
             /\ ~check.signalled

C25_Witness ==
    /\ check.op = "release"
    /\ check.passes = 2
    /\ check.process \in {"terminated", "killed"}
    /\ check.dir = "removed"
    /\ check.file = "removed"
    /\ check.file_path # "None"

\* C26: the readiness loop makes at most 20 probes; a probe answered 200
\* ends the loop with success and no probe follows it; any other answer or
\* an exception counts as not ready and the loop goes on to the next probe;
\* the loop fails exactly when 20 probes have gone by without a 200.
ProbeCounted(r) == probes'[r] = probes[r] + 1

C26_ReadinessPollingBounded ==
    /\ [](\A r \in Runs : probes[r] <= ReadinessAttempts)
    /\ [][\A r \in Runs :
            /\ fg[r] # "polling" => probes'[r] = probes[r]
            /\ ProbeCounted(r) => fg'[r] = "polling"
            /\ fg[r] = "polling" /\ fg'[r] = "live_view" =>
                 probes[r] < ReadinessAttempts
            /\ fg[r] = "polling" /\ fg'[r] = "raised" =>
                 /\ probes[r] = ReadinessAttempts
                 /\ fgErr'[r] = "Chrome failed to start with CDP"
            /\ fg[r] = "polling" /\ probes[r] = ReadinessAttempts =>
                 fg'[r] \in {"polling", "raised"} /\ probes'[r] = probes[r]
         ]_vars

C26_Witness ==
    \E r \in Runs :
        /\ fg[r] = "polling"
        /\ probes[r] = ReadinessAttempts

\* The page targets of a list that carry a frontend URL of either kind.
PageTargetsWithUrl(targets) ==
    {k \in 1..Len(targets) :
        /\ targets[k].type = "page"
        /\ \/ targets[k].devtoolsFrontendUrlCompat # <<>>
           \/ targets[k].devtoolsFrontendUrl # <<>>}

\* The i-th query of a discovery that never finds a target: attempt
\* (i + 1) \div 2, /json/list when i is odd and /json when i is even.
CanonicalQuery(i) ==
    <<(i + 1) \div 2,
      IF i % 2 = 1 THEN UrlText("/json/list") ELSE UrlText("/json")>>

\* C27: discovery makes at most 7 attempts of two queries each, /json/list
\* before /json in every attempt; it returns at the first page target that
\* carries a frontend URL and queries nothing after it has returned; and it
\* always returns: while it has not returned the next query can be made, and
\* every step it takes uses up one of the 14 queries.
C27_DiscoveryBoundedAndOrdered ==
    /\ [](/\ Len(view.queries) <= 2 * DiscoveryAttempts
          /\ \A i \in 1..Len(view.queries) :
                view.queries[i] = CanonicalQuery(i)
          /\ view.pc = "query" => ENABLED ResolveQuery)
    /\ [][/\ view.pc # "query" => view'.queries = view.queries
          /\ view.pc = "query" /\ view' # view =>
               Len(view'.queries) = Len(view.queries) + 1
          /\ view'.queries # view.queries =>
               /\ Len(view'.queries) = Len(view.queries) + 1
               /\ LET response == view'.response
                      found == IF response.kind = "targets"
                               THEN PageTargetsWithUrl(response.targets)
                               ELSE {}
                  IN  IF found # {}
                      THEN /\ view'.pc = "resolved"
                           /\ view'.picked = Least(found)
                      ELSE /\ view'.picked = 0
                           /\ view'.pc = "resolved" <=>
                                Len(view'.queries) = 2 * DiscoveryAttempts
         ]_vars

C27_Witness ==
    /\ view.pc = "resolved"
    /\ view.picked = 2
    /\ view.queries = <<CanonicalQuery(1), CanonicalQuery(2),
                        CanonicalQuery(3), CanonicalQuery(4)>>

\* Discovery returned a URL, taken from target view.picked of the response
\* it read last.
Found == Resolved /\ view.picked # 0

PickedTarget == view.response.targets[view.picked]

PageTargets == {k \in 1..Len(view.response.targets) :
                    view.response.targets[k].type = "page"}

\* C28 as stated: the URL returned is taken from a page target, and when
\* the page targets of the response carry a compat URL and a plain URL
\* between them, the URL returned is the rewritten compat URL.
C28_CompatPreferredAmongPageTargets ==
    Found =>
        /\ view.picked \in PageTargets
        /\ (/\ \E k \in PageTargets :
                   view.response.targets[k].devtoolsFrontendUrlCompat # <<>>
            /\ \E k \in PageTargets :
                   view.response.targets[k].devtoolsFrontendUrl # <<>>)
           => view.resolved = Available(Rewritten[CompatUrl, view.public_host])

\* C28 amended: the URL returned is taken from the first page target of the
\* response that carries a frontend URL of either kind; it is that target's
\* compat URL, rewritten, when the target has one, and its plain URL,
\* rewritten, when it has none.  The rewritten compat and plain URLs differ.
C28_CompatPreferredWithinTarget ==
    /\ \A h \in PublicHosts : Rewritten[CompatUrl, h] # Rewritten[PlainUrl, h]
    /\ Found =>
        /\ view.picked \in PageTargets
        /\ view.picked = Least(PageTargetsWithUrl(view.response.targets))
        /\ view.resolved =
             Available(Rewritten[
                 IF PickedTarget.devtoolsFrontendUrlCompat # <<>>
                 THEN PickedTarget.devtoolsFrontendUrlCompat
                 ELSE PickedTarget.devtoolsFrontendUrl,
                 view.public_host])

C28_Witness ==
    /\ Found
    /\ view.picked = 2
    /\ view.response.targets[1].type = "iframe"
    /\ view.response.targets[1].devtoolsFrontendUrl # <<>>
    /\ PickedTarget.devtoolsFrontendUrlCompat # <<>>
    /\ PickedTarget.devtoolsFrontendUrl # <<>>
    /\ view.resolved = Available(Rewritten[CompatUrl, view.public_host])

\* start_agent has handed (session_id, live_view_url) to its caller.
Returned == view.pc = "returned"

\* The value is a string that is not empty.
IsUrlText(v) == v.kind = "str" /\ v.value # <<>>

\* C29 as stated: the live_view_url handed to the caller is never empty or
\* None; it is the rewritten frontend URL when discovery found one; and when
\* discovery returned None the caller gets a not-available signal, not a
\* string that stands where a live view URL would.
C29_UnavailableIsSignalled ==
    Returned =>
        /\ view.live_view_url # Unavailable
        /\ view.live_view_url # Available(<<>>)
        /\ view.picked # 0 => view.live_view_url = view.resolved
        /\ view.resolved = Unavailable => ~IsUrlText(view.live_view_url)

\* C29 amended: the live_view_url handed to the caller is never empty or
\* None; it is the rewritten frontend URL when discovery found one; and when
\* discovery returned None it is the raw protocol URL
\* http://<public host>:<port>/json.
C29_UnavailableGivesRawProtocolUrl ==
    Returned =>
        /\ IsUrlText(view.live_view_url)
        /\ view.picked # 0 =>
             /\ view.live_view_url = view.resolved
             /\ view.live_view_url =
                  Available(Rewritten[UrlOf(PickedTarget), view.public_host])
        /\ view.resolved = Unavailable =>
             LET parts == urlparse(view.live_view_url.value)
             IN  /\ parts.scheme = HttpScheme
                 /\ parts.netloc = HostPort(view.public_host, DebugPort)
                 /\ parts.path = UrlText("/json")
                 /\ parts.query = <<>>
                 /\ parts.fragment = <<>>

C29_Witness ==
    /\ Returned
    /\ view.resolved = Unavailable
    /\ ~view.last_error
    /\ IsUrlText(view.live_view_url)
    /\ urlparse(view.live_view_url.value).path = UrlText("/json")

\* C30: send_webhook called with an empty URL or with None makes no POST,
\* signs nothing and returns without raising, whatever the secret is.
C30_NoUrlNoPost ==
    (hook.pc # "idle" /\ hook.webhook_url \in {"", "None"}) =>
        /\ hook.pc = "returned"
        /\ posts = <<>>
        /\ hook.posted = 0
        /\ ~hook.signed
        /\ hook.error = NoHook.error

C30_Witness ==
    /\ hook.pc = "returned"
    /\ hook.webhook_url = "None"
    /\ hook.secret # <<>>
    /\ posts = <<>>

\* The step is one of the background run r: its position moves on from where
\* create_task left it, or something the task writes changes.
BackgroundStep(r) ==
    \/ bg[r] # "none" /\ bg'[r] # bg[r]
    \/ resumeFile'[r] # resumeFile[r]
    \/ file_path'[r] # file_path[r]
    \/ agentResult'[r] # agentResult[r]
    \/ exc'[r] # exc[r]
    \/ cleanupEntered'[r] # cleanupEntered[r]

\* C31: no step of the background run (download, connect, agent, cleanup)
\* is taken before start_agent has returned the session id and the live
\* view URL; the step that creates the task is the step that returns, and
\* it runs nothing of the task.
C31_NoBackgroundStepBeforeReturn ==
    [][\A r \in Runs :
         /\ BackgroundStep(r) =>
              /\ fg[r] = "returned"
              /\ session_id[r] # <<>>
              /\ live_view_url[r] # ""
         /\ (bg[r] = "none" /\ bg'[r] # "none") =>
              /\ bg'[r] = "scheduled"
              /\ fg'[r] = "returned"
              /\ session_id'[r] # <<>>
              /\ live_view_url'[r] # ""
      ]_vars

C31_Witness ==
    \E r \in Runs :
        /\ fg[r] = "returned"
        /\ bg[r] = "scheduled"
        /\ session_id[r] # <<>>
        /\ live_view_url[r] # ""
        /\ resumeFile[r] = "none"

\* Run o has a step left to take: its call of start_agent has not ended, or
\* its task exists and has not ended.
Pending(o) ==
    \/ fg[o] \in {"idle", "find_chrome", "polling", "live_view"}
    \/ bg[o] \in {"scheduled", "connect", "agent", "closing", "wait_process"}

\* C32: the network and file steps of a background run are suspension
\* points; while one run is downloading its resume, any other run of the
\* process that has a step left, in its request handler or in its task, can
\* take it.
C32_DownloadYieldsToOtherRuns ==
    \A r \in DOMAIN bg : \A o \in DOMAIN bg \ {r} :
        (bg[r] = "downloading" /\ Pending(o)) =>
            ENABLED (Foreground(o) \/ Background(o))

\* Run o connected the bridge successfully and its agent is still running.
RunningWithBridge(o) == bg[o] = "agent"

\* C33: with two runs in one process, the cleanup of run r closes only the
\* bridge r connected (the shared reference names r when r starts to close
\* it), and it never closes or resets the shared reference while another
\* run that connected successfully is still running.
C33_CleanupClosesOwnBridgeOnly ==
    [][\A r \in DOMAIN bg :
         /\ (bg[r] # "closing" /\ bg'[r] = "closing") =>
              /\ playwright_browser' = r
              /\ \A o \in DOMAIN bg \ {r} : ~RunningWithBridge(o)
         /\ (/\ bg[r] = "closing"
             /\ bg'[r] # "closing"
             /\ playwright_browser' # playwright_browser) =>
              \A o \in DOMAIN bg \ {r} : ~RunningWithBridge(o)
      ]_vars

\* The two runs are where BridgeInit places them.
AtBridgeInit ==
    /\ \A r \in DOMAIN bg : bg[r] = "connect" /\ handle[r].resume = r
    /\ \A r \in DOMAIN bg : live_view_url[r] = "devtools_frontend_url"
    /\ playwright_browser = NoRun

\* C34: with two runs in one process, a custom action invoked by the agent
\* of a run (file upload, malicious-content banner) acts on no page or on a
\* page of that run's own browser, never on the page of the other run's.
C34_ActionsUseOwnPage ==
    check.op = "action" => check.out.touched \in {NoRun, check.run}

\* C39: the file upload action always hands an action result back and never
\* raises; with no bridge page or no file on disk the result is an error and
\* no page was touched; when each of the three ways of setting the file
\* fails, the result is an error.
C39_UploadAlwaysReturnsResult ==
    (check.op = "action" /\ check.name = "upload") =>
        /\ ~check.out.raised
        /\ check.out.result \in {"error", "extracted_content"}
        /\ (check.page = NoRun \/ ~check.file_exists) =>
               (check.out.result = "error" /\ check.out.touched = NoRun)
        /\ (/\ check.page # NoRun
            /\ check.file_exists
            /\ check.course = "all_failed") => check.out.result = "error"

C39_Witness ==
    /\ check.op = "action"
    /\ check.name = "upload"
    /\ check.page # NoRun
    /\ check.file_exists
    /\ check.course = "all_failed"
    /\ check.out.result = "error"
    /\ ~check.out.raised

\* C40: whenever the coroutines are suspended, the shared page reference is
\* empty or names a page of the browser the shared browser reference holds.
C40_PageBelongsToBridgeBrowser ==
    playwright_page = NoRun \/ playwright_page = playwright_browser

\* C35: a correctly signed request whose payload timestamp is older than
\* the tolerance window is rejected by verify_webhook_request whatever the
\* timestamp header that is presented with it.
C35_OldPayloadRejectedWhateverHeader ==
    (check.op = "replay" /\ hook.signed
       /\ check.now - hook.timestamp > DefaultTolerance) => ~check.accepted

\* C36: with an empty secret generate_webhook_signature raises ValueError
\* for every payload, and verify_webhook_signature returns False for every
\* payload, signature and timestamp.
C36_EmptySecretSignsAndAcceptsNothing ==
    /\ (check.op = "sign" /\ check.secret = <<>>) =>
           (check.raised = "ValueError" /\ check.value = <<>>)
    /\ (check.op = "verify" /\ check.secret = <<>>) => ~check.result

C36_Witness ==
    /\ check.op = "verify"
    /\ check.secret = <<>>
    /\ check.form = "empty_key"
    /\ check.kind = "None"
    /\ ~check.result

\* Candidate number i is on disk or a PATH name, and its --version
\* invocation can be spawned.
Qualifies(i) ==
    /\ check.exists[chrome_paths[i]] \/ chrome_paths[i] \in {"chrome", "chromium"}
    /\ check.spawns[chrome_paths[i]]

\* C37: the candidates are probed in list order; the first one that
\* qualifies is launched; the Chrome-not-found error is raised exactly when
\* none qualifies, and then nothing is launched.
C37_FirstQualifyingCandidateLaunched ==
    check.op = "select_chrome" =>
        LET Q == {i \in DOMAIN chrome_paths : Qualifies(i)}
            Last == IF Q = {} THEN Len(chrome_paths) ELSE Least(Q)
            Probed == {i \in 1..Last :
                         \/ check.exists[chrome_paths[i]]
                         \/ chrome_paths[i] \in {"chrome", "chromium"}}
        IN /\ (check.error = "Chrome not found") <=> (Q = {})
           /\ Q = {} => check.launched = ""
           /\ Q # {} => (check.launched = chrome_paths[Least(Q)]
                         /\ check.error = "none")
           /\ Len(check.tried) = Cardinality(Probed)
           /\ \A j \in DOMAIN check.tried :
                \E i \in Probed :
                    /\ check.tried[j] = chrome_paths[i]
                    /\ Cardinality({k \in Probed : k < i}) = j - 1

C37_Witness ==
    /\ check.op = "select_chrome"
    /\ check.exists["/usr/bin/google-chrome"]
    /\ ~check.spawns["/usr/bin/google-chrome"]
    /\ ~check.exists["chrome"]
    /\ check.launched = "chrome"
    /\ Len(check.tried) = 2

\* The header value names a page or origin served by cloud.stapply.ai.
FromCloud(value) ==
    /\ value # <<>>
    /\ urlparse(value).scheme \in {HttpScheme, HttpsScheme}
    /\ urlparse(value).netloc = Text("cloud.stapply.ai")

\* C38: in production a request to a non-public path that carries an Origin
\* or Referer header is passed on only if it comes from cloud.stapply.ai;
\* requests to /, /health and /docs, and every request outside production,
\* are passed on without a check.
C38_OnlyCloudOriginPasses ==
    check.op = "dispatch" =>
        /\ (/\ check.env = Text("production")
            /\ check.path \notin {"/", "/health", "/docs"}
            /\ (check.origin # <<>> \/ check.referer # <<>>)
            /\ check.out.outcome = "call_next") =>
               (FromCloud(check.origin) \/ FromCloud(check.referer))
        /\ (check.env # Text("production")
            \/ check.path \in {"/", "/health", "/docs"}) =>
               (check.out.outcome = "call_next" /\ ~check.out.checked)

====
